---------------------------- MODULE Spec2Model ----------------------------
(***************************************************************************)
(* Verification model of email-scrubber-core: the URL sanitizer            *)
(* (src/src/cleaners/LinkCleaner.ts, the eagerly compiling revision at     *)
(* lines 238-476) together with the platform primitives it calls (RegExp,  *)
(* URL, URLSearchParams, decodeURIComponent), modelled on strings.         *)
(***************************************************************************)
EXTENDS Integers, Sequences, FiniteSets, TLC

(***************************************************************************)
(* Strings.  A string is a TLA+ string; Head/Tail/SubSeq/Len/\o act on it  *)
(* as on a sequence of one-character strings.                              *)
(***************************************************************************)
NULL == [null |-> TRUE]

UpperChars == "ABCDEFGHIJKLMNOPQRSTUVWXYZ"
LowerChars == "abcdefghijklmnopqrstuvwxyz"
DigitChars == "0123456789"
HexChars == "0123456789ABCDEF"
HexCharsLower == "0123456789abcdef"
\* Printable ASCII in code order: codes 32..95 and 97..126 (code 96, the
\* grave accent, cannot be written in a string and is outside the model).
AsciiLow == " !\"#$%&'()*+,-./0123456789:;<=>?@ABCDEFGHIJKLMNOPQRSTUVWXYZ[\\]^_"
AsciiHigh == "abcdefghijklmnopqrstuvwxyz{|}~"
AsciiLowBase == 32
AsciiHighBase == 97

Min(S) == CHOOSE x \in S : \A y \in S : x <= y
Max(S) == CHOOSE x \in S : \A y \in S : x >= y

\* The least element of a set of positions, 0 for the empty set.
FirstOf(hits) == IF hits = {} THEN 0 ELSE Min(hits)

\* The elements of a finite set of integers in ascending order.
SortedSeq(S) ==
  [k \in 1..Cardinality(S) |->
     CHOOSE x \in S : Cardinality({y \in S : y < x}) = k - 1]

CharAt(s, i) == SubSeq(s, i, i)
Prefix(s, n) == SubSeq(s, 1, n)
Suffix(s, n) == SubSeq(s, n, Len(s))
StartsWith(s, p) == Len(s) >= Len(p) /\ Prefix(s, Len(p)) = p

\* Positions of character c in s.
Positions(c, s) == {i \in 1..Len(s) : CharAt(s, i) = c}
\* Position (1-based) of the first occurrence of character c in s, 0 if none.
IndexOf(c, s) == IF Positions(c, s) = {} THEN 0 ELSE Min(Positions(c, s))
Occurs(c, s) == Positions(c, s) # {}

\* String.prototype.includes
Includes(s, t) ==
  \E i \in 1..(Len(s) - Len(t) + 1) : SubSeq(s, i, i + Len(t) - 1) = t

\* String.prototype.endsWith
EndsWith(s, t) == Len(t) <= Len(s) /\ Suffix(s, Len(s) - Len(t) + 1) = t

RECURSIVE JoinRange(_, _, _)
\* Concatenation of the strings parts[lo..hi], by halving.
JoinRange(parts, lo, hi) ==
  IF lo > hi THEN ""
  ELSE IF lo = hi THEN parts[lo]
  ELSE LET mid == (lo + hi) \div 2
       IN  JoinRange(parts, lo, mid) \o JoinRange(parts, mid + 1, hi)

Join(parts) == JoinRange(parts, 1, Len(parts))

ToLowerChar(c) ==
  LET i == IndexOf(c, UpperChars) IN IF i = 0 THEN c ELSE CharAt(LowerChars, i)

\* String.prototype.toLowerCase on ASCII.
ToLower(s) == Join([i \in 1..Len(s) |-> ToLowerChar(CharAt(s, i))])

IsAlpha(c) == Occurs(c, UpperChars) \/ Occurs(c, LowerChars)
IsDigit(c) == Occurs(c, DigitChars)
IsHex(c) == Occurs(c, HexChars) \/ Occurs(c, HexCharsLower)
HexVal(c) ==
  LET i == IndexOf(c, HexChars) IN
    IF i # 0 THEN i - 1 ELSE IndexOf(c, HexCharsLower) - 1

\* Character code of a printable ASCII character, 0 outside the tables.
CodeOf(c) ==
  IF Occurs(c, AsciiLow) THEN AsciiLowBase + IndexOf(c, AsciiLow) - 1
  ELSE IF Occurs(c, AsciiHigh) THEN AsciiHighBase + IndexOf(c, AsciiHigh) - 1
  ELSE 0

HasChar(code) ==
  \/ code >= AsciiLowBase /\ code < AsciiLowBase + Len(AsciiLow)
  \/ code >= AsciiHighBase /\ code < AsciiHighBase + Len(AsciiHigh)

CharOf(code) ==
  IF code < AsciiHighBase THEN CharAt(AsciiLow, code - AsciiLowBase + 1)
  ELSE CharAt(AsciiHigh, code - AsciiHighBase + 1)

(***************************************************************************)
(* RegExp.  new RegExp(p, "i") and RegExp.prototype.test for the pattern   *)
(* language the rule sets of this repository use: literal characters,     *)
(* backslash escapes, ".", the postfix quantifiers "*", "+", "?" on one    *)
(* atom, and the anchors "^" (first) and "$" (last).  The language has no  *)
(* character classes or groups, so an unescaped "[" or "(" is always      *)
(* unterminated and makes the constructor throw.                           *)
(***************************************************************************)
\* Number of consecutive backslashes that end right before position i.
BackslashRun(p, i) ==
  Max({k \in 0..(i - 1) : \A j \in (i - k)..(i - 1) : CharAt(p, j) = "\\"})

\* Position i holds a backslash that escapes the next character.
IsEscape(p, i) == CharAt(p, i) = "\\" /\ BackslashRun(p, i) % 2 = 0
\* Position i holds a character that is escaped by the backslash before it.
IsEscaped(p, i) == i > 1 /\ IsEscape(p, i - 1)
IsQuantifier(p, i) == ~ IsEscaped(p, i) /\ CharAt(p, i) \in {"*", "+", "?"}
IsAnchor(p, i) ==
  /\ ~ IsEscaped(p, i)
  /\ \/ i = 1 /\ CharAt(p, i) = "^"
     \/ i = Len(p) /\ CharAt(p, i) = "$"

\* Does new RegExp(p, "i") construct (TRUE) or throw a SyntaxError (FALSE)?
ValidRegex(p) ==
  /\ \A i \in 1..Len(p) :
       /\ ~ (~ IsEscaped(p, i) /\ CharAt(p, i) \in {"[", "(", ")"})
       /\ IsEscape(p, i) => i < Len(p)
       /\ IsQuantifier(p, i) =>
            i > 1 /\ ~ IsQuantifier(p, i - 1) /\ ~ IsAnchor(p, i - 1)

\* The atoms of a valid pattern in order: [lit, any, min, many].
Atoms(p) ==
  LET at == SortedSeq({i \in 1..Len(p) :
                 ~ IsEscape(p, i) /\ ~ IsQuantifier(p, i) /\ ~ IsAnchor(p, i)})
      q(i) == IF i < Len(p) /\ IsQuantifier(p, i + 1)
              THEN CharAt(p, i + 1) ELSE ""
  IN  [k \in 1..Len(at) |->
         [lit  |-> ToLowerChar(CharAt(p, at[k])),
          any  |-> CharAt(p, at[k]) = "." /\ ~ IsEscaped(p, at[k]),
          min  |-> IF q(at[k]) \in {"*", "?"} THEN 0 ELSE 1,
          many |-> q(at[k]) \in {"*", "+"}]]

AnchoredStart(p) == p # "" /\ IsAnchor(p, 1) /\ CharAt(p, 1) = "^"
AnchoredEnd(p) == p # "" /\ IsAnchor(p, Len(p)) /\ CharAt(p, Len(p)) = "$"

\* Case-insensitive match of one atom against one character (flag "i").
AtomMatches(a, c) == a.any \/ a.lit = ToLowerChar(c)

RECURSIVE MatchFrom(_, _, _, _, _)
\* Do atoms as[k..] match text t from position i on (up to the end of t when
\* toEnd)?  A run of unquantified atoms is compared in one step.
MatchFrom(as, k, t, i, toEnd) ==
  IF k > Len(as) THEN (~ toEnd \/ i = Len(t) + 1)
  ELSE IF as[k].min = 1 /\ ~ as[k].many THEN
    LET stop == Min({m \in k..(Len(as) + 1) :
                       m = Len(as) + 1 \/ as[m].min = 0 \/ as[m].many})
        n == stop - k
    IN  /\ i + n - 1 <= Len(t)
        /\ \A j \in 0..(n - 1) : AtomMatches(as[k + j], CharAt(t, i + j))
        /\ MatchFrom(as, stop, t, i + n, toEnd)
  ELSE
    \E n \in as[k].min..(IF as[k].many THEN Len(t) - i + 1
                         ELSE IF i <= Len(t) THEN 1 ELSE 0) :
      /\ \A j \in 0..(n - 1) : AtomMatches(as[k], CharAt(t, i + j))
      /\ MatchFrom(as, k + 1, t, i + n, toEnd)

\* new RegExp(p, "i") for a valid p: the compiled form of the pattern.
CompileRegex(p) ==
  [atoms |-> Atoms(p), start |-> AnchoredStart(p), end |-> AnchoredEnd(p)]

\* RegExp.prototype.test: an unanchored pattern may match anywhere in t.
TestRegex(re, t) ==
  IF re.start THEN MatchFrom(re.atoms, 1, t, 1, re.end)
  ELSE \E i \in 1..(Len(t) + 1) : MatchFrom(re.atoms, 1, t, i, re.end)

\* new RegExp(p, "i").test(t)
RegexTest(p, t) == TestRegex(CompileRegex(p), t)

(***************************************************************************)
(* Percent-encoding.  Escapes of printable ASCII are decoded; the inputs   *)
(* of this model carry no other escapes, and an escape outside the tables  *)
(* is left as it stands.                                                   *)
(***************************************************************************)
\* Position i starts a well-formed escape %XX.
IsEscapeStart(s, i) ==
  /\ CharAt(s, i) = "%"
  /\ i + 2 <= Len(s)
  /\ IsHex(CharAt(s, i + 1))
  /\ IsHex(CharAt(s, i + 2))

EscapeCode(s, i) == 16 * HexVal(CharAt(s, i + 1)) + HexVal(CharAt(s, i + 2))

\* Percent-decode: a malformed escape is kept literally.
PercentDecode(s) ==
  Join([i \in 1..Len(s) |->
    IF IsEscapeStart(s, i) /\ HasChar(EscapeCode(s, i))
      THEN CharOf(EscapeCode(s, i))
    ELSE IF \E d \in {1, 2} : i - d >= 1 /\ IsEscapeStart(s, i - d)
                                /\ HasChar(EscapeCode(s, i - d))
      THEN ""
    ELSE CharAt(s, i)])

\* application/x-www-form-urlencoded decoding of a name or a value:
\* "+" is a space, then percent-decode.
FormDecode(s) ==
  PercentDecode(Join([i \in 1..Len(s) |->
                        IF CharAt(s, i) = "+" THEN " " ELSE CharAt(s, i)]))

HexByte(code) ==
  "%" \o CharAt(HexChars, (code \div 16) + 1) \o CharAt(HexChars, (code % 16) + 1)

\* application/x-www-form-urlencoded serialisation of a name or a value.
FormEncode(s) ==
  Join([i \in 1..Len(s) |->
    LET c == CharAt(s, i)
    IN  IF IsAlpha(c) \/ IsDigit(c) \/ c \in {"*", "-", ".", "_"} THEN c
        ELSE IF c = " " THEN "+"
        ELSE HexByte(CodeOf(c))])

\* decodeURIComponent(s): [ok, str]; a "%" that does not start a
\* well-formed escape makes it throw URIError (ok = FALSE).
decodeURIComponent(s) ==
  IF \E i \in 1..Len(s) : CharAt(s, i) = "%" /\ ~ IsEscapeStart(s, i)
  THEN [ok |-> FALSE, str |-> ""]
  ELSE [ok |-> TRUE, str |-> PercentDecode(s)]

(***************************************************************************)
(* URL.  new URL(s) without a base, the href and search getters, and the   *)
(* URLSearchParams view of the query.  A URL value is the record           *)
(* [scheme, host, path, hasQuery, query, hasFragment, fragment].  Modelled *)
(* are: trimming, the scheme, the special schemes' authority (lower-cased  *)
(* host, no credentials or port), the empty path becoming "/", backslashes *)
(* of a special scheme's path becoming "/", and the query and fragment;    *)
(* spaces inside are escaped as %20.                                       *)
(***************************************************************************)
SpecialSchemes == {"http", "https", "ftp", "ws", "wss"}

Trim(s) ==
  LET keep == {i \in 1..Len(s) : CharAt(s, i) # " "}
  IN  IF keep = {} THEN "" ELSE SubSeq(s, Min(keep), Max(keep))

EscapeSpaces(s) ==
  Join([i \in 1..Len(s) |-> IF CharAt(s, i) = " " THEN "%20" ELSE CharAt(s, i)])

Slashes(s) ==
  Join([i \in 1..Len(s) |-> IF CharAt(s, i) = "\\" THEN "/" ELSE CharAt(s, i)])

\* First position >= from that holds one of the characters cs; Len(s)+1 if none.
FindFirst(s, from, cs) ==
  Min({i \in from..(Len(s) + 1) : i = Len(s) + 1 \/ CharAt(s, i) \in cs})

ValidScheme(sch) ==
  /\ sch # ""
  /\ IsAlpha(CharAt(sch, 1))
  /\ \A i \in 1..Len(sch) :
       IsAlpha(CharAt(sch, i)) \/ IsDigit(CharAt(sch, i))
         \/ CharAt(sch, i) \in {"+", "-", "."}

ForbiddenHostChars == {" ", "#", "%", "/", ":", "<", ">", "?", "@", "[", "\\", "]", "^", "|"}

ValidHost(h) ==
  /\ h # ""
  /\ \A i \in 1..Len(h) : CharAt(h, i) \notin ForbiddenHostChars

BadUrl ==
  [scheme |-> "", host |-> "", path |-> "", hasQuery |-> FALSE, query |-> "",
   hasFragment |-> FALSE, fragment |-> "", own |-> ""]

BadParse == [ok |-> FALSE, url |-> BadUrl]

Special(scheme) == scheme \in SpecialSchemes

\* Where the host starts: a special scheme skips any run of slashes.
AuthorityStart(s, colon, special) ==
  IF special
  THEN Min({i \in (colon + 1)..(Len(s) + 1) :
              i = Len(s) + 1 \/ CharAt(s, i) \notin {"/", "\\"}})
  ELSE colon + 1

HostEnd(s, start, special) ==
  IF special THEN FindFirst(s, start, {"/", "\\", "?", "#"}) ELSE start

HasQueryAt(s, pathEnd) == pathEnd <= Len(s) /\ CharAt(s, pathEnd) = "?"

QueryEnd(s, pathEnd) ==
  IF HasQueryAt(s, pathEnd) THEN FindFirst(s, pathEnd + 1, {"#"}) ELSE pathEnd

PathOf(rawPath, special) ==
  IF special THEN (IF rawPath = "" THEN "/" ELSE EscapeSpaces(Slashes(rawPath)))
  ELSE EscapeSpaces(rawPath)

\* The URL record, from the positions the parser cut the input at.  (own is
\* the value of an own property "href" defined on the object, "" if none.)
UrlOf(s, scheme, start, hostEnd, pathEnd, queryEnd) ==
  [ok |-> TRUE,
   url |-> [scheme |-> scheme,
            host |-> IF Special(scheme)
                     THEN ToLower(SubSeq(s, start, hostEnd - 1)) ELSE "",
            path |-> PathOf(SubSeq(s, hostEnd, pathEnd - 1), Special(scheme)),
            hasQuery |-> HasQueryAt(s, pathEnd),
            query |-> IF HasQueryAt(s, pathEnd)
                      THEN EscapeSpaces(SubSeq(s, pathEnd + 1, queryEnd - 1))
                      ELSE "",
            hasFragment |-> queryEnd <= Len(s),
            fragment |-> IF queryEnd <= Len(s)
                         THEN EscapeSpaces(Suffix(s, queryEnd + 1)) ELSE "",
            own |-> ""]]

ParseQuery(s, scheme, start, hostEnd, pathEnd) ==
  UrlOf(s, scheme, start, hostEnd, pathEnd, QueryEnd(s, pathEnd))

ParsePath(s, scheme, start, hostEnd) ==
  IF Special(scheme) /\ ~ ValidHost(SubSeq(s, start, hostEnd - 1)) THEN BadParse
  ELSE ParseQuery(s, scheme, start, hostEnd, FindFirst(s, hostEnd, {"?", "#"}))

ParseHost(s, scheme, start) ==
  ParsePath(s, scheme, start, HostEnd(s, start, Special(scheme)))

ParseAuthority(s, scheme, colon) ==
  ParseHost(s, scheme, AuthorityStart(s, colon, Special(scheme)))

ParseScheme(s, colon) ==
  IF colon = 0 \/ ~ ValidScheme(Prefix(s, colon - 1)) THEN BadParse
  ELSE ParseAuthority(s, ToLower(Prefix(s, colon - 1)), colon)

ParseTrimmed(s) == ParseScheme(s, IndexOf(":", s))

\* new URL(input): [ok, url]; ok = FALSE when the constructor throws.
ParseUrl(input) == ParseTrimmed(Trim(input))

\* URL.prototype.href (and toString).
Serialize(u) ==
  u.scheme \o ":"
    \o (IF u.scheme \in SpecialSchemes THEN "//" \o u.host ELSE "")
    \o u.path
    \o (IF u.hasQuery THEN "?" \o u.query ELSE "")
    \o (IF u.hasFragment THEN "#" \o u.fragment ELSE "")

\* urlObject.href: an own property of the object shadows the accessor.
Href(u) == IF u.own # "" THEN u.own ELSE Serialize(u)

\* Object.defineProperty(u, "href", { value: v })
DefineHref(u, v) == [u EXCEPT !.own = v]

\* URL.prototype.search: empty for a missing or an empty query.
Search(u) == IF u.hasQuery /\ u.query # "" THEN "?" \o u.query ELSE ""

\* The pieces of s between the cuts (positions of the separator, with 0 and
\* Len(s) + 1 around them).
Pieces(s, cuts) ==
  [k \in 1..(Len(cuts) - 1) |-> SubSeq(s, cuts[k] + 1, cuts[k + 1] - 1)]

Split(s, c) == Pieces(s, SortedSeq(Positions(c, s) \cup {0, Len(s) + 1}))

\* The entries of seq at the positions idx, in that order.
Pick(seq, idx) == [k \in 1..Len(idx) |-> seq[idx[k]]]

NonEmpty(pieces) ==
  Pick(pieces, SortedSeq({k \in 1..Len(pieces) : pieces[k] # ""}))

PairAt(piece, eq) ==
  IF eq = 0 THEN <<piece, "">>
  ELSE <<Prefix(piece, eq - 1), Suffix(piece, eq + 1)>>

PairsOf(pieces) ==
  [k \in 1..Len(pieces) |-> PairAt(pieces[k], IndexOf("=", pieces[k]))]

\* The query split at "&" and at each piece's first "=", nothing decoded.
RawPairs(u) == PairsOf(NonEmpty(Split(u.query, "&")))

DecodePairs(raw) ==
  [k \in 1..Len(raw) |-> <<FormDecode(raw[k][1]), FormDecode(raw[k][2])>>]

\* The list of <<name, value>> pairs of url.searchParams.
SearchParams(u) == DecodePairs(RawPairs(u))

Names(ps) == [k \in 1..Len(ps) |-> ps[k][1]]

\* searchParams.keys(): the names in encounter order.
Keys(u) == Names(SearchParams(u))

FirstValue(ps, hits) ==
  IF hits = {} THEN [has |-> FALSE, value |-> ""]
  ELSE [has |-> TRUE, value |-> ps[Min(hits)][2]]

GetFrom(ps, name) == FirstValue(ps, {k \in 1..Len(ps) : ps[k][1] = name})

\* searchParams.get(name): the value of the first pair of that name.
Get(u, name) == GetFrom(SearchParams(u), name)

\* The serialisation of a list of pairs into a query string.
SerializeParams(ps) ==
  Join([k \in 1..Len(ps) |->
          (IF k > 1 THEN "&" ELSE "")
            \o FormEncode(ps[k][1]) \o "=" \o FormEncode(ps[k][2])])

\* The update steps of URLSearchParams: the URL's query is rewritten from
\* the list (a list left empty clears the query).
SetQuery(u, q) == [u EXCEPT !.hasQuery = (q # ""), !.query = q]

Without(ps, name) ==
  Pick(ps, SortedSeq({k \in 1..Len(ps) : ps[k][1] # name}))

\* searchParams.delete(name): every pair of that name goes.
DeleteParam(u, name) ==
  SetQuery(u, SerializeParams(Without(SearchParams(u), name)))

(***************************************************************************)
(* LinkCleaner.  A rule set (ClearUrlRules.providers) is the sequence of   *)
(* its entries in key order, each [key, urlPattern, rules, exceptions,     *)
(* redirections, referral]; an optional list that is absent is <<>>, as    *)
(* the code reads it with "|| []".                                         *)
(***************************************************************************)
GlobalKey == "globalRules"

Provider(key, urlPattern, rls, exceptions, redirections, referral) ==
  [key |-> key, urlPattern |-> urlPattern, rules |-> rls,
   exceptions |-> exceptions, redirections |-> redirections,
   referral |-> referral]

\* A compiled pattern is [null, alts]: null when compilation failed or there
\* was nothing to compile, else the compiled alternatives of the pattern.
NullPattern == [null |-> TRUE, alts |-> <<>>]

\* compileUrlPattern, had it compiled an invalid pattern into one that
\* matches everything.
compileUrlPatternAny(pattern) ==
  [null |-> FALSE,
   alts |-> <<CompileRegex(IF ValidRegex(pattern) THEN pattern ELSE ".*")>>]

\* compileUrlPattern: the compiled pattern, or null if the constructor throws.
compileUrlPattern(pattern) ==
  IF ValidRegex(pattern)
  THEN [null |-> FALSE, alts |-> <<CompileRegex(pattern)>>]
  ELSE NullPattern

\* compileCombinedPattern: one RegExp "(?:p1|p2|...)" for the whole list;
\* null for an empty list, and null when the combined source does not
\* compile, which is the case as soon as one entry is invalid.
compileCombinedPattern(patterns) ==
  IF Len(patterns) = 0 THEN NullPattern
  ELSE IF \A i \in 1..Len(patterns) : ValidRegex(patterns[i])
    THEN [null |-> FALSE,
          alts |-> [i \in 1..Len(patterns) |-> CompileRegex(patterns[i])]]
  ELSE NullPattern

\* patterns.join(", ")
joinPatterns(patterns) ==
  Join([i \in 1..Len(patterns) |->
          (IF i > 1 THEN ", " ELSE "") \o patterns[i]])

\* What compileUrlPattern logs with console.error.
urlPatternError(pattern, provider) ==
  IF ValidRegex(pattern) THEN <<>>
  ELSE <<"Invalid URL regex for provider " \o provider \o ": " \o pattern>>

\* What compileCombinedPattern logs with console.error.
combinedPatternError(patterns, provider, fieldName) ==
  IF Len(patterns) = 0 \/ \A i \in 1..Len(patterns) : ValidRegex(patterns[i])
  THEN <<>>
  ELSE <<"Invalid " \o fieldName \o " regex for provider " \o provider
           \o ": " \o joinPatterns(patterns)>>

\* What compileProvider logs, in the order of its calls.
errorsOf(p) ==
  urlPatternError(p.urlPattern, p.key)
    \o combinedPatternError(p.rules, p.key, "rules")
    \o combinedPatternError(p.exceptions, p.key, "exceptions")
    \o combinedPatternError(p.redirections, p.key, "redirections")
    \o combinedPatternError(p.referral, p.key, "referral")

RECURSIVE errorsOfAll(_, _)
\* What the constructor's loop logs from provider k on.
errorsOfAll(R, k) ==
  IF k > Len(R) THEN <<>> ELSE errorsOf(R[k]) \o errorsOfAll(R, k + 1)

\* compileProvider: the CachedProviderRule of one provider.
compileProvider(providerRules) ==
  [urlPattern   |-> compileUrlPattern(providerRules.urlPattern),
   rules        |-> compileCombinedPattern(providerRules.rules),
   exceptions   |-> compileCombinedPattern(providerRules.exceptions),
   redirections |-> compileCombinedPattern(providerRules.redirections),
   referral     |-> compileCombinedPattern(providerRules.referral)]

\* The constructor's loop: cachedProviders, aligned with the rule set.
compileAll(R) == [k \in 1..Len(R) |-> compileProvider(R[k])]

\* matchesPattern(value, pattern): false for null, else pattern.test(value).
matchesPattern(value, pattern) ==
  IF pattern.null THEN FALSE
  ELSE \E i \in 1..Len(pattern.alts) : TestRegex(pattern.alts[i], value)

\* getProvider(provider): index of the cached provider of that key, 0 for null.
getProvider(R, provider) ==
  LET hits == {k \in 1..Len(R) : R[k].key = provider}
  IN  IF hits = {} THEN 0 ELSE Max(hits)

RECURSIVE findProviderFrom(_, _, _, _)
\* The loop of findProvider from entry k on: index of the provider
\* returned, 0 for null.
findProviderFrom(R, C, urlObject, k) ==
  IF k > Len(R) THEN 0
  ELSE IF R[k].key = GlobalKey THEN findProviderFrom(R, C, urlObject, k + 1)
  ELSE IF matchesPattern(Href(urlObject), C[k].urlPattern)
    THEN IF matchesPattern(Href(urlObject), C[k].exceptions)
           THEN findProviderFrom(R, C, urlObject, k + 1)
         ELSE k
  ELSE findProviderFrom(R, C, urlObject, k + 1)

\* A faulty findProvider that never looks at the exceptions.
findProviderNoExceptions(R, C, urlObject) ==
  FirstOf({k \in 1..Len(R) :
             /\ R[k].key # GlobalKey
             /\ matchesPattern(Href(urlObject), C[k].urlPattern)})

\* A faulty findProvider that keeps the last provider that qualifies.
findProviderLast(R, C, urlObject) ==
  LET hits == {k \in 1..Len(R) :
                 /\ R[k].key # GlobalKey
                 /\ matchesPattern(Href(urlObject), C[k].urlPattern)
                 /\ ~ matchesPattern(Href(urlObject), C[k].exceptions)}
  IN  IF hits = {} THEN 0 ELSE Max(hits)

findProvider(R, C, urlObject) == findProviderFrom(R, C, urlObject, 1)

RECURSIVE deleteAll(_, _, _)
\* The second loop of cleanParams: searchParams.delete for every collected name.
deleteAll(urlObject, names, k) ==
  IF k > Len(names) THEN urlObject
  ELSE deleteAll(DeleteParam(urlObject, names[k]), names, k + 1)

\* The first loop of cleanParams: the names of keys() that match the rules
\* or the referral pattern.
paramsToDelete(keys, cachedProvider) ==
  Pick(keys, SortedSeq({k \in 1..Len(keys) :
                          \/ matchesPattern(keys[k], cachedProvider.rules)
                          \/ matchesPattern(keys[k], cachedProvider.referral)}))

\* A faulty cleanParams that writes the parameter list back to the URL even
\* when it deletes nothing.
cleanParamsRewriting(urlObject, cachedProvider) ==
  deleteAll(SetQuery(urlObject, SerializeParams(SearchParams(urlObject))),
            paramsToDelete(Keys(urlObject), cachedProvider), 1)

\* cleanParams(urlObject, cachedProvider): the URL after the call.
cleanParams(urlObject, cachedProvider) ==
  IF cachedProvider.rules.null /\ cachedProvider.referral.null THEN urlObject
  ELSE deleteAll(urlObject, paramsToDelete(Keys(urlObject), cachedProvider), 1)

\* searchParams.get(param) for the k-th name of keys().
redirectUrl(ps, k) == GetFrom(ps, ps[k][1]).value

\* A faulty redirection that hands the nested clean the URL it came from.
redirectTargetOuter(urlObject, k) == Href(urlObject)

\* decodeURIComponent(redirectUrl) for the k-th name of keys(): the string
\* the nested clean is called with.
redirectTarget(urlObject, k) ==
  decodeURIComponent(redirectUrl(SearchParams(urlObject), k)).str

\* The value is not empty and neither decodeURIComponent nor the nested
\* clean throws (the nested clean throws exactly when its input does not
\* parse).
resolves(value) ==
  /\ value # ""
  /\ decodeURIComponent(value).ok
  /\ ParseUrl(decodeURIComponent(value).str).ok

followsAt(ps, k, redirections) ==
  matchesPattern(ps[k][1], redirections) /\ resolves(redirectUrl(ps, k))

\* One turn of the redirection loop of clean, at the k-th name of keys():
\* TRUE when the loop returns the nested clean there.
follows(urlObject, cachedProvider, k) ==
  followsAt(SearchParams(urlObject), k, cachedProvider.redirections)

redirectIndexIn(ps, redirections) ==
  FirstOf({k \in 1..Len(ps) : followsAt(ps, k, redirections)})

\* The redirection loop of clean: position in keys() of the first parameter
\* the loop returns at; 0 if the loop runs out.
redirectIndex(urlObject, cachedProvider) ==
  IF cachedProvider.redirections.null THEN 0
  ELSE redirectIndexIn(SearchParams(urlObject), cachedProvider.redirections)

\* A faulty clean that leaves the global pass out.
globalPassSkipped(R, C, urlObject) == urlObject

\* The URL after the global pass of clean.
globalPass(R, C, urlObject) ==
  IF getProvider(R, GlobalKey) # 0
  THEN cleanParams(urlObject, C[getProvider(R, GlobalKey)])
  ELSE urlObject

\* What clean returns: [threw, url, same, self, depth, provider] where url
\* is the URL returned, same tells that the returned object is the argument
\* itself, self is the argument object after the call (clean works on it in
\* place), depth counts the nested invocations of clean and provider is what
\* findProvider returned in the outermost invocation (0 for null, also when
\* it was not called).
Returns(urlObject, specificProvider) ==
  [threw |-> FALSE, url |-> urlObject, same |-> TRUE, self |-> urlObject,
   depth |-> 1, provider |-> specificProvider, message |-> ""]

\* "return this.clean(redirectUrl)": the nested result is the result.
ReturnsNested(inner, urlObject, specificProvider) ==
  [threw |-> FALSE, url |-> inner.url, same |-> FALSE, self |-> urlObject,
   depth |-> inner.depth + 1, provider |-> specificProvider, message |-> ""]

Threw == [threw |-> TRUE, url |-> BadUrl, same |-> FALSE, self |-> BadUrl,
          depth |-> 1, provider |-> 0, message |-> "Invalid URL provided: "]

RECURSIVE cleanUrl(_, _, _)
\* clean from the redirection loop on: r is where the loop returns (0: it
\* runs out, and cleanParams follows).
cleanFromRedirect(R, C, urlObject, specificProvider, r) ==
  IF r # 0
  THEN ReturnsNested(cleanUrl(R, C, ParseUrl(redirectTarget(urlObject, r)).url),
                     urlObject, specificProvider)
  ELSE Returns(cleanParams(urlObject, C[specificProvider]), specificProvider)

\* clean from the result of findProvider on.
cleanFromProvider(R, C, urlObject, specificProvider) ==
  IF specificProvider = 0 THEN Returns(urlObject, 0)
  ELSE cleanFromRedirect(R, C, urlObject, specificProvider,
                         redirectIndex(urlObject, C[specificProvider]))

\* clean from the result of the global pass on.
cleanFromGlobal(R, C, urlObject) ==
  cleanFromProvider(R, C, urlObject, findProvider(R, C, urlObject))

\* clean(url) for a URL object.
cleanUrl(R, C, urlObject) ==
  IF Len(Search(urlObject)) = 0 THEN Returns(urlObject, 0)
  ELSE cleanFromGlobal(R, C, globalPass(R, C, urlObject))

\* The body of clean(url) for a string that new URL has parsed.
cleanParsed(R, C, parsed) ==
  IF ~ parsed.ok THEN Threw
  ELSE [cleanUrl(R, C, parsed.url) EXCEPT !.same = FALSE]

\* clean(url) for a string: throws "Invalid URL provided" when it does not
\* parse, else cleans the new URL object.
InvalidUrl(r, url) ==
  IF r.threw THEN [r EXCEPT !.message = r.message \o url] ELSE r

cleanString(R, C, s) == InvalidUrl(cleanParsed(R, C, ParseUrl(s)), s)

(***************************************************************************)
(* Rule sets the cleaner is constructed from.                              *)
(***************************************************************************)
\* mockRules of src/__tests__/LinkCleaner.test.ts (whole-URL exceptions).
TestRules ==
  << Provider("google.com", "google\\.com",
       <<"gclid", "gclsrc", "utm_source", "utm_medium", "utm_campaign">>,
       <<"^https?:\\/\\/mail\\.google\\.com\\/mail\\/u\\/",
         "^https?:\\/\\/accounts\\.google\\.com\\/o\\/oauth2\\/">>,
       <<"url">>, <<"ref">>),
     Provider("facebook.com", "facebook\\.com",
       <<"fbclid", "utm_source", "utm_medium">>,
       <<"^https?:\\/\\/developers\\.facebook\\.com\\/tools\\/",
         "^https?:\\/\\/business\\.facebook\\.com\\/security\\/">>,
       <<>>, <<>>),
     Provider("amazon.com", "amazon\\.com",
       <<"ref", "tag", "linkCode">>,
       <<"^https?:\\/\\/developer\\.amazon\\.com\\/",
         "^https?:\\/\\/aws\\.amazon\\.com\\/console\\/">>,
       <<"url">>, <<>>),
     Provider("tracking-domain.com", "tracking-domain\\.com",
       <<"track_id", "campaign_id">>,
       <<"^https?:\\/\\/tracking-domain\\.com\\/admin\\/">>,
       <<>>, <<>>) >>

\* mockRules of the earlier LinkCleaner test (parameter-name exceptions).
ParamExceptionRules ==
  << Provider("google.com", "google\\.com",
       <<"gclid", "gclsrc", "utm_source", "utm_medium", "utm_campaign">>,
       <<"q">>, <<"url">>, <<"ref">>),
     Provider("tracking-domain.com", "tracking-domain\\.com",
       <<"track_id", "campaign_id">>, <<"important_param">>, <<>>, <<>>),
     Provider("shop.com", "shop\\.com",
       <<"track_id", "sid">>, <<"^sid$">>, <<>>, <<"ref">>) >>

\* rulesWithGlobal of src/__tests__/sanitizer.test.ts, with a provider that
\* has a whole-URL exception.
GlobalRules ==
  << Provider(GlobalKey, ".*", <<"utm_source", "utm_medium">>, <<>>, <<>>, <<>>),
     Provider("specific.com", "specific\\.com", <<"track_id">>,
       <<"^https?:\\/\\/specific\\.com\\/account">>, <<"url">>, <<>>) >>

\* multiProviderRules of src/__tests__/sanitizer.test.ts.
MultiProviderRules ==
  << Provider("generic.com", "\\.com", <<"generic_param">>, <<>>, <<>>, <<>>),
     Provider("google.com", "google\\.com", <<"gclid">>, <<>>, <<>>, <<>>) >>

\* createMinimalRules().
MinimalRules ==
  << Provider("*", ".*",
       <<"utm_source", "utm_medium", "utm_campaign", "utm_term", "utm_content",
         "utm_id", "utm_name", "fbclid", "gclid", "msclkid", "mc_cid",
         "mc_eid", "_hsenc", "_hsmi">>, <<>>, <<>>, <<>>),
     Provider("google.com", "google\\.com",
       <<"gclid", "gclsrc", "utm_source", "utm_medium", "utm_campaign",
         "utm_term", "utm_content">>, <<>>, <<>>, <<>>),
     Provider("facebook.com", "facebook\\.com",
       <<"fbclid", "utm_source", "utm_medium", "utm_campaign", "utm_term",
         "utm_content">>, <<>>, <<>>, <<>>),
     Provider("twitter.com", "twitter\\.com",
       <<"utm_source", "utm_medium", "utm_campaign", "utm_term",
         "utm_content", "twclid">>, <<>>, <<>>, <<>>),
     Provider("linkedin.com", "linkedin\\.com",
       <<"utm_source", "utm_medium", "utm_campaign", "utm_term",
         "utm_content", "li_fat_id">>, <<>>, <<>>, <<>>),
     Provider("amazon.com", "amazon\\.com",
       <<"ref", "tag", "linkCode", "creative", "creativeASIN", "camp",
         "adid">>, <<>>, <<>>, <<>>),
     Provider("youtube.com", "youtube\\.com",
       <<"utm_source", "utm_medium", "utm_campaign", "utm_term",
         "utm_content", "feature">>, <<>>, <<>>, <<>>) >>

\* rulesWithInvalidRegex of src/__tests__/LinkCleaner.test.ts, with a second
\* provider whose pattern matches the same domain.
InvalidRegexRules ==
  << Provider("bad-regex.com", "[invalid-regex", <<"param1">>, <<>>,
              <<"url">>, <<>>),
     Provider("regex.com", "regex\\.com", <<"param2">>, <<>>, <<>>, <<>>) >>

\* A global provider whose urlPattern does not compile.
InvalidGlobalRules ==
  << Provider(GlobalKey, "[invalid-regex", <<"utm_source">>, <<>>, <<>>, <<>>),
     Provider("specific.com", "specific\\.com", <<"track_id">>, <<>>, <<>>,
              <<>>) >>

\* rulesWithInvalidException of src/__tests__/LinkCleaner.test.ts.
InvalidExceptionRules ==
  << Provider("test.com", "test\\.com", <<"track">>,
              <<"[invalid-exception-regex">>, <<>>, <<>>) >>

\* Lists with one invalid entry next to valid ones.
InvalidEntryRules ==
  << Provider("google.com", "google\\.com", <<"[bad", "gclid">>, <<>>,
              <<"[bad", "url">>, <<"[bad", "ref">>),
     Provider("test.com", "test\\.com", <<"track">>,
              <<"[bad", "^https?:\\/\\/test\\.com\\/keep">>, <<>>, <<>>) >>

\* A provider with two redirection parameters and a short rule, "ref".
RedirectRules ==
  << Provider("google.com", "google\\.com", <<"gclid", "ref">>, <<>>,
              <<"url", "redirect">>, <<>>) >>

\* encodeURIComponent, as the tests use it to build redirection values.
encodeURIComponent(s) ==
  Join([i \in 1..Len(s) |->
    LET c == CharAt(s, i)
    IN  IF IsAlpha(c) \/ IsDigit(c)
             \/ c \in {"-", "_", ".", "!", "~", "*", "'", "(", ")"} THEN c
        ELSE HexByte(CodeOf(c))])

(***************************************************************************)
(* TrackerPixelRemover.  An element is a record [tag, src, alt, style,     *)
(* width, height]; an attribute is <<>> when getAttribute gives null and   *)
(* <<v>> when it gives the string v.                                       *)
(***************************************************************************)
WhiteSpace == {" ", "\t", "\n"}

\* maxPixelSize of DEFAULT_OPTIONS, and the offset below which an absolutely
\* positioned image counts as hidden.
\* The most elements a document has.
MaxElements == 3

DefaultMaxPixelSize == 2
CustomMaxPixelSize == 5
OffScreenOffset == 1000
OffScreen == 0 - OffScreenOffset

\* !value for what getAttribute returned: null or the empty string.
Falsy(attr) == attr = <<>> \/ attr[1] = ""

\* The position after the run of characters of cs that starts at j.
SkipRun(s, j, cs) ==
  Min({k \in j..(Len(s) + 1) : k = Len(s) + 1 \/ CharAt(s, k) \notin cs})

\* Is the text t at position i of s, letter case aside?
TextAt(s, i, t) ==
  i + Len(t) - 1 <= Len(s) /\ ToLower(SubSeq(s, i, i + Len(t) - 1)) = t

RECURSIVE DigitsValue(_)
\* The number a string of decimal digits stands for.
DigitsValue(digits) ==
  IF digits = "" THEN 0
  ELSE 10 * DigitsValue(Prefix(digits, Len(digits) - 1))
         + HexVal(CharAt(digits, Len(digits)))

\* parseInt(text, 10) for an optional "-" followed by digits.
parseInt(text) ==
  IF StartsWith(text, "-") THEN 0 - DigitsValue(Suffix(text, 2))
  ELSE DigitsValue(text)

\* The capture of (-?\d+) from position from on, when "px" follows it at
\* position to; <<>> when the match fails there.
PxCapture(s, from, digitsFrom, to) ==
  IF to > digitsFrom /\ TextAt(s, to, "px") THEN <<SubSeq(s, from, to - 1)>>
  ELSE <<>>

PxDigits(s, from, digitsFrom) ==
  PxCapture(s, from, digitsFrom, SkipRun(s, digitsFrom, {CharAt(DigitChars, d) : d \in 1..10}))

PxNumber(s, from, signed) ==
  PxDigits(s, from, IF signed /\ CharAt(s, from) = "-" THEN from + 1 ELSE from)

PxAfterColon(s, colon, signed) ==
  IF CharAt(s, colon) # ":" THEN <<>>
  ELSE PxNumber(s, SkipRun(s, colon + 1, WhiteSpace), signed)

\* The match of /name\s*:\s*(-?\d+)px/i (the "-?" only when signed) that
\* starts at position i of s: its capture, <<>> if there is none.
PxMatchAt(s, i, name, signed) ==
  IF ~ TextAt(s, i, name) THEN <<>>
  ELSE PxAfterColon(s, SkipRun(s, i + Len(name), WhiteSpace), signed)

PxMatchFirst(s, name, signed, hits) ==
  IF hits = {} THEN <<>> ELSE PxMatchAt(s, Min(hits), name, signed)

\* style.match(/name\s*:\s*(-?\d+)px/i): the capture of the leftmost match.
PxMatch(s, name, signed) ==
  PxMatchFirst(s, name, signed,
               {i \in 1..Len(s) : PxMatchAt(s, i, name, signed) # <<>>})

\* getDimension: /^(\d+)(?:px)?$/i and parseInt; <<>> for null.
DimensionOf(d, digitsEnd) ==
  IF digitsEnd > 1 /\ (digitsEnd = Len(d) + 1
                        \/ (digitsEnd = Len(d) - 1 /\ TextAt(d, digitsEnd, "px")))
  THEN <<DigitsValue(Prefix(d, digitsEnd - 1))>>
  ELSE <<>>

getDimension(dimension) ==
  IF Falsy(dimension) THEN <<>>
  ELSE DimensionOf(dimension[1],
                   SkipRun(dimension[1], 1,
                           {CharAt(DigitChars, d) : d \in 1..10}))

\* Both numbers are there and at most maxPixelSize.
bothSmall(options, width, height) ==
  width[1] <= options.maxPixelSize /\ height[1] <= options.maxPixelSize

styleDimensions(options, widthMatch, heightMatch) ==
  IF widthMatch # <<>> /\ heightMatch # <<>>
  THEN bothSmall(options, <<parseInt(widthMatch[1])>>,
                 <<parseInt(heightMatch[1])>>)
  ELSE FALSE

attributeDimensions(options, img, width, height) ==
  IF width # <<>> /\ height # <<>> THEN bothSmall(options, width, height)
  ELSE IF Falsy(img.style) THEN FALSE
  ELSE styleDimensions(options, PxMatch(img.style[1], "width", FALSE),
                       PxMatch(img.style[1], "height", FALSE))

hasTrackingPixelDimensions(options, img) ==
  attributeDimensions(options, img, getDimension(img.width),
                      getDimension(img.height))

\* A faulty hasTrackingDomain that looks for the domain anywhere in the host.
hostContains(options, hostname) ==
  \E i \in 1..Len(options.trackingDomains) :
    Includes(hostname, options.trackingDomains[i])

\* trackingDomains.some(...) on the host name of a URL that parsed.
hostIsTracked(options, hostname) ==
  \E i \in 1..Len(options.trackingDomains) :
    \/ hostname = options.trackingDomains[i]
    \/ EndsWith(hostname, "." \o options.trackingDomains[i])

\* The catch block: trackingDomains.some(...) on the lower-cased src.
srcNamesDomain(options, srcLower) ==
  \E i \in 1..Len(options.trackingDomains) :
    Includes(srcLower, options.trackingDomains[i])

domainOf(options, src, parsed) ==
  IF parsed.ok THEN hostIsTracked(options, ToLower(parsed.url.host))
  ELSE srcNamesDomain(options, ToLower(src))

hasTrackingDomain(options, img) ==
  IF Falsy(img.src) THEN FALSE
  ELSE domainOf(options, img.src[1], ParseUrl(img.src[1]))

\* params.has(trackingParam) for some tracking parameter.
hasSomeParam(options, names) ==
  \E i \in 1..Len(options.trackingParams) :
    \E j \in 1..Len(names) : names[j] = options.trackingParams[i]

\* The catch block: trackingParams.some(...) on the lower-cased src.
srcNamesParam(options, srcLower) ==
  \E i \in 1..Len(options.trackingParams) :
    Includes(srcLower, options.trackingParams[i] \o "=")

parametersOf(options, src, parsed) ==
  IF parsed.ok THEN hasSomeParam(options, Keys(parsed.url))
  ELSE srcNamesParam(options, ToLower(src))

hasTrackingParameters(options, img) ==
  IF Falsy(img.src) THEN FALSE
  ELSE parametersOf(options, img.src[1], ParseUrl(img.src[1]))

\* alt.trim() === ""
Blank(s) == \A i \in 1..Len(s) : CharAt(s, i) \in WhiteSpace

hasNoAltText(img) == img.alt = <<>> \/ Blank(img.alt[1])

transparentGif ==
  "data:image/gif;base64,R0lGODlhAQABAIAAAAAAAP///yH5BAEAAAAALAAAAAABAAEAAAIBRAA7"

transparentPng ==
  "data:image/png;base64,iVBORw0KGgoAAAANSUhEUgAAAAEAAAABCAYAAAAfFcSJAAAADUlEQVR42mNkYPhfDwAChwGA60e6kgAAAABJRU5ErkJggg=="

\* parseFloat(text) === 0 for a text of digits and dots: the number is read
\* from the digits before and after the first dot, up to a second dot.
ZeroDigits(text, intEnd, fracEnd) ==
  /\ fracEnd - 1 > (IF intEnd <= Len(text) THEN 1 ELSE 0)
  /\ \A k \in 1..(fracEnd - 1) : CharAt(text, k) \in {"0", "."}

ZeroFrom(text, intEnd) ==
  ZeroDigits(text, intEnd,
             IF intEnd <= Len(text)
             THEN SkipRun(text, intEnd + 1, {CharAt(DigitChars, d) : d \in 1..10})
             ELSE intEnd)

parseFloatIsZero(text) ==
  ZeroFrom(text, SkipRun(text, 1, {CharAt(DigitChars, d) : d \in 1..10}))

OpacityCapture(s, from) ==
  IF SkipRun(s, from, {CharAt(DigitChars, d) : d \in 1..10} \cup {"."}) > from
  THEN <<SubSeq(s, from,
                SkipRun(s, from, {CharAt(DigitChars, d) : d \in 1..10} \cup {"."}) - 1)>>
  ELSE <<>>

OpacityAfterColon(s, colon) ==
  IF CharAt(s, colon) # ":" THEN <<>>
  ELSE OpacityCapture(s, SkipRun(s, colon + 1, WhiteSpace))

OpacityMatchAt(s, i) ==
  IF ~ TextAt(s, i, "opacity") THEN <<>>
  ELSE OpacityAfterColon(s, SkipRun(s, i + 7, WhiteSpace))

OpacityMatchFirst(s, hits) ==
  IF hits = {} THEN <<>> ELSE OpacityMatchAt(s, Min(hits))

\* style.match(/opacity\s*:\s*([\d.]+)/i): the capture of the leftmost match.
OpacityMatch(s) ==
  OpacityMatchFirst(s, {i \in 1..Len(s) : OpacityMatchAt(s, i) # <<>>})

opacityIsZero(opacityMatch) ==
  IF opacityMatch = <<>> THEN FALSE ELSE parseFloatIsZero(opacityMatch[1])

isTransparent(img) ==
  IF Falsy(img.src) THEN FALSE
  ELSE IF img.src[1] = transparentGif \/ img.src[1] = transparentPng THEN TRUE
  ELSE IF StartsWith(img.src[1], "data:image/")
            /\ Includes(img.src[1], "transparent") THEN TRUE
  ELSE IF Falsy(img.style) THEN FALSE
  ELSE opacityIsZero(OpacityMatch(img.style[1]))

\* parseInt(match[1], 10) < -1000 for a match that is there.
farOff(match) == match # <<>> /\ parseInt(match[1]) < OffScreen

offScreen(style, styleLower) ==
  /\ \/ Includes(styleLower, "position:absolute")
     \/ Includes(styleLower, "position: absolute")
  /\ \/ farOff(PxMatch(style, "left", TRUE))
     \/ farOff(PxMatch(style, "top", TRUE))

hiddenBy(style, styleLower) ==
  \/ Includes(styleLower, "display:none")
  \/ Includes(styleLower, "display: none")
  \/ Includes(styleLower, "visibility:hidden")
  \/ Includes(styleLower, "visibility: hidden")
  \/ offScreen(style, styleLower)

isHidden(img) ==
  IF Falsy(img.style) THEN FALSE
  ELSE hiddenBy(img.style[1], ToLower(img.style[1]))

\* A faulty isTrackingPixel that lets one weak signal decide.
weakAny(hasSmallDimensions, hasNoAlt, transparent) ==
  hasSmallDimensions \/ hasNoAlt \/ transparent

\* The three weak signals, and the pairs of them that decide.
weakPair(hasSmallDimensions, hasNoAlt, transparent) ==
  \/ hasSmallDimensions /\ hasNoAlt
  \/ transparent /\ hasNoAlt
  \/ hasSmallDimensions /\ transparent

\* A faulty isTrackingPixel that leaves the hidden images to the weak signals.
isTrackingPixelVisible(options, img) ==
  IF hasTrackingDomain(options, img) THEN TRUE
  ELSE IF hasTrackingParameters(options, img) THEN TRUE
  ELSE weakPair(hasTrackingPixelDimensions(options, img),
                options.removeNoAltImages /\ hasNoAltText(img),
                options.removeTransparentImages /\ isTransparent(img))

isTrackingPixel(options, img) ==
  IF hasTrackingDomain(options, img) THEN TRUE
  ELSE IF hasTrackingParameters(options, img) THEN TRUE
  ELSE IF isHidden(img) THEN TRUE
  ELSE weakPair(hasTrackingPixelDimensions(options, img),
                options.removeNoAltImages /\ hasNoAltText(img),
                options.removeTransparentImages /\ isTransparent(img))

DEFAULT_OPTIONS ==
  [maxPixelSize |-> DefaultMaxPixelSize,
   trackingDomains |->
     <<"google-analytics.com", "googletagmanager.com", "doubleclick.net",
       "facebook.com", "connect.facebook.net", "scorecardresearch.com",
       "quantserve.com", "outbrain.com", "taboola.com", "adsystem.com",
       "amazon-adsystem.com", "googlesyndication.com", "googleadservices.com",
       "twitter.com", "linkedin.com", "pinterest.com", "snapchat.com",
       "tiktok.com", "hubspot.com", "mailchimp.com", "constantcontact.com",
       "sendgrid.net", "mailgun.org", "createsend.com", "campaign-monitor.com",
       "aweber.com", "getresponse.com", "convertkit.com", "activecampaign.com",
       "drip.com", "klaviyo.com", "omnisend.com", "sendinblue.com",
       "emailoctopus.com", "moosend.com", "pardot.com", "marketo.com",
       "eloqua.com", "salesforce.com">>,
   trackingParams |->
     <<"utm_source", "utm_medium", "utm_campaign", "utm_content", "utm_term",
       "fbclid", "gclid", "msclkid", "twclid", "li_fat_id", "mc_cid", "mc_eid",
       "_hsenc", "_hsmi", "mkt_tok", "vero_id", "vero_conv", "email_id",
       "recipient_id", "list_id", "campaign_id", "message_id", "subscriber_id",
       "tracking_id", "pixel_id", "beacon_id">>,
   removeNoAltImages |-> TRUE,
   removeTransparentImages |-> TRUE]

\* this.options = { ...DEFAULT_OPTIONS, ...options }
mergeOptions(given) ==
  [f \in DOMAIN DEFAULT_OPTIONS |->
     IF f \in DOMAIN given THEN given[f] ELSE DEFAULT_OPTIONS[f]]

\* new TrackerPixelRemover(): options = {}
NoOptions == [f \in {} |-> 0]

\* The options the remover is constructed with.
GivenOptions ==
  <<NoOptions,
    [maxPixelSize |-> CustomMaxPixelSize],
    [removeNoAltImages |-> FALSE],
    [removeTransparentImages |-> FALSE],
    [trackingDomains |-> <<"my-custom-tracker.com">>],
    [trackingParams |-> <<"my_param">>],
    [maxPixelSize |-> CustomMaxPixelSize,
     trackingDomains |-> <<"custom.com">>,
     trackingParams |-> <<"custom_param">>,
     removeNoAltImages |-> FALSE,
     removeTransparentImages |-> FALSE]>>

Element(tag, src, alt, style, size) ==
  [node |-> 0, tag |-> tag, src |-> src, alt |-> alt, style |-> style,
   width |-> size[1], height |-> size[2], href |-> <<>>]

\* Values of the src attribute: absent, empty, URLs that parse and strings
\* that new URL rejects.
Srcs ==
  {<<>>, <<"">>,
   <<"https://example.com/image.jpg">>,
   <<"pixel.gif">>,
   <<"https://google-analytics.com/pixel.gif">>,
   <<"https://stats.google-analytics.com/pixel.gif">>,
   <<"HTTPS://WWW.FACEBOOK.COM/tr">>,
   <<"https://notfacebook.com/p.gif">>,
   <<"https://facebook.com.example.org/p.gif">>,
   <<"https://example.com/facebook.com/p.gif">>,
   <<"//cdn.Facebook.com/tr.gif">>,
   <<"img/notfacebook.com.png">>,
   <<"https://my-custom-tracker.com/pixel.png">>,
   <<"https://example.com/pixel.gif?utm_source=email&utm_campaign=newsletter">>,
   <<"https://example.com/image.jpg?id=123">>,
   <<"https://example.com/img.png?my_param=1">>,
   <<"https://example.com/img.png?UTM_SOURCE=1">>,
   <<"pixel.gif?GCLID=1">>,
   <<transparentGif>>,
   <<"data:image/png;base64,transparent">>}

SrcsCore == {<<>>, <<"https://example.com/image.jpg">>, <<"pixel.gif">>}

\* Values of the style attribute.
Styles ==
  {<<>>, <<"">>,
   <<"display:none">>, <<"display: none;">>, <<"DISPLAY: NONE">>,
   <<"display : none">>, <<"display:  none">>, <<"display:block">>,
   <<"visibility:hidden">>, <<"Visibility: Hidden">>,
   <<"visibility :hidden">>, <<"visibility:visible">>,
   <<"position:absolute;left:-9999px">>,
   <<"position: absolute; top: -1001px">>,
   <<"POSITION:ABSOLUTE;LEFT : -1001PX">>,
   <<"position:absolute;left:-1000px;top:-1000px">>,
   <<"position:absolute;left:10px;top:0px">>,
   <<"position : absolute;left:-9999px">>,
   <<"left:-9999px">>,
   <<"width: 1px; height: 1px;">>, <<"width:1px;height:100px">>,
   <<"opacity:0">>, <<"opacity: 0.5">>}

StylesCore == {<<>>, <<"display:none">>, <<"width: 1px; height: 1px;">>}

\* Values of the alt attribute.
Alts == {<<>>, <<"">>, <<"  ">>, <<"Company Logo">>}

AltsCore == {<<>>, <<"Company Logo">>}

\* Values of the width and height attributes.
Sizes ==
  {<<<<>>, <<>>>>, <<<<"1">>, <<"1">>>>, <<<<"2">>, <<"1px">>>>,
   <<<<"5">>, <<"5">>>>, <<<<"200">>, <<"150">>>>, <<<<"1">>, <<>>>>,
   <<<<"1">>, <<"100%">>>>, <<<<"3">>, <<"1">>>>}

SizesCore == {<<<<>>, <<>>>>, <<<<"1">>, <<"1">>>>, <<<<"200">>, <<"150">>>>}

\* The images isTrackingPixel is called with.
ImagePool ==
  {Element("img", src, alt, style, size) :
     src \in Srcs, alt \in Alts, style \in StylesCore, size \in SizesCore}
  \cup
  {Element("img", src, alt, style, size) :
     src \in SrcsCore, alt \in AltsCore, style \in Styles, size \in Sizes}

\* The elements documents are made of.
ElementPool ==
  <<Element("iframe", <<"https://google-analytics.com/pixel.gif">>, <<>>,
            <<"display:none">>, <<<<"1">>, <<"1">>>>),
    Element("img", <<"good-image.jpg">>, <<"Good image">>, <<>>,
            <<<<"200">>, <<"150">>>>),
    Element("img", <<"https://google-analytics.com/pixel.gif">>, <<>>, <<>>,
            <<<<"1">>, <<"1">>>>),
    Element("img", <<"pixel.gif">>, <<>>, <<>>, <<<<"1">>, <<"1">>>>),
    Element("img", <<>>, <<"no src">>, <<"display:none">>, <<<<>>, <<>>>>)>>

\* The document with the given elements: every element is a node of its own.
DocumentOf(elements) ==
  [k \in 1..Len(elements) |-> [elements[k] EXCEPT !.node = k]]

Documents ==
  UNION {{DocumentOf([k \in 1..n |-> ElementPool[choice[k]]]) :
            choice \in [1..n -> 1..Len(ElementPool)]} : n \in 0..MaxElements}

\* A faulty clean that takes every element for an image.
querySelectorAny(doc, selector) == doc

\* document.querySelectorAll(selector) for a tag name
querySelectorAll(doc, selector) ==
  SelectSeq(doc, LAMBDA element : element.tag = selector)

\* element.remove()
remove(doc, element) ==
  SelectSeq(doc, LAMBDA other : other.node # element.node)


(***************************************************************************)
(* Inputs.  Every rule set comes with the URLs it is exercised on: a base  *)
(* (scheme, host, path) followed by a query of at most MaxParams           *)
(* parameters drawn from a pool; redirection values nest up to MaxNest.    *)
(***************************************************************************)
MaxParams == 2
MaxNest == 2

RuleSets ==
  {TestRules, ParamExceptionRules, GlobalRules, MultiProviderRules, MinimalRules}

\* Rule sets with patterns that are no regular expressions.
InvalidRuleSets ==
  {InvalidRegexRules, InvalidGlobalRules, InvalidExceptionRules,
   InvalidEntryRules}

RECURSIVE Nested(_)
\* A redirection chain of d URLs, built as the "deeply nested" test does.
Nested(d) ==
  IF d <= 1 THEN "https://example.com/t?gclid=1"
  ELSE "https://google.com/url?url=" \o encodeURIComponent(Nested(d - 1))
         \o "&gclid=1"

RedirectParams ==
  {"url=" \o encodeURIComponent(Nested(d)) : d \in 1..MaxNest}

RECURSIVE Chain(_)
\* A redirection chain of d URLs whose values are not encoded.
Chain(d) ==
  IF d <= 1 THEN "https://example.com/final"
  ELSE "https://google.com/url?url=" \o Chain(d - 1)

\* The length of the long redirection chain.
ChainLength == 12

Group(bases, pool) == [bases |-> bases, pool |-> pool]

\* The input groups of a rule set: bases and the pool their queries draw on.
Groups(R) ==
  CASE R = TestRules ->
         {Group({"https://amazon.com/dp", "https://example.com/page",
                 "https://mail.google.com/mail/u/0/"},
                {"q=1", "gclid=1", "ref=google.com", "tag=x",
                 "src=amazon.com"}),
          Group({"https://google.com/url"},
                {"gclid=1", "url=", "url=invalid-url",
                 "url=" \o encodeURIComponent("https://example.com/t?a=b%26c"),
                 "url=" \o encodeURIComponent(
                             encodeURIComponent("https://example.com/t"))}
                  \cup RedirectParams)}
    [] R = ParamExceptionRules ->
         {Group({"https://shop.com/page", "https://tracking-domain.com/page"},
                {"q=1", "track_id=1", "sid=1", "important_param=keep", "ref=a"})}
    [] R = GlobalRules ->
         {Group({"https://specific.com/page", "https://specific.com/account",
                 "https://example.com/page"},
                {"utm_source=specific.com", "track_id=1", "to=a/b"}),
          Group({"https://specific.com/page"},
                {"utm_source=x"} \cup RedirectParams)}
    [] R = MultiProviderRules ->
         {Group({"https://google.com/search", "https://example.org/page"},
                {"gclid=1", "generic_param=1", "other=keep"})}
    [] R = MinimalRules ->
         {Group({"https://google.com/search", "https://amazon.com/dp",
                 "https://example.com/page"},
                {"q=1", "utm_source=x", "gclsrc=aw", "tag=x"})}
    [] R = RedirectRules ->
         {Group({"https://google.com/url"},
                {"gclid=1", "GCLID=1", "preference=1", "refresh_token=1",
                 "curl=" \o encodeURIComponent("https://example.com/c"),
                 "url=invalid-url",
                 "url=" \o encodeURIComponent("https://example.com/target1"),
                 "redirect=" \o encodeURIComponent("https://example.com/target2"),
                 "url=" \o encodeURIComponent("javascript:alert(1)"),
                 "url=" \o encodeURIComponent("mailto:a@example.com")}),
          Group({Chain(ChainLength)}, {})}
    [] R = InvalidRegexRules ->
         {Group({"https://bad-regex.com/page", "https://example.com/page"},
                {"param1=value", "param2=1", "q=1",
                 "url=" \o encodeURIComponent("https://regex.com/t?param2=1")})}
    [] R = InvalidGlobalRules ->
         {Group({"https://specific.com/page", "https://example.com/page"},
                {"utm_source=x", "track_id=1", "q=1"})}
    [] R = InvalidExceptionRules ->
         {Group({"https://test.com/page", "https://example.com/page"},
                {"track=value", "q=1"})}
    [] R = InvalidEntryRules ->
         {Group({"https://google.com/search", "https://test.com/keep",
                 "https://test.com/page"},
                {"gclid=1", "ref=a", "track=1", "q=1",
                 "url=" \o encodeURIComponent("https://test.com/page?track=1")})}

Queries(pool) ==
  UNION {{Join([k \in 1..n |-> (IF k > 1 THEN "&" ELSE "") \o f[k]]) :
            f \in [1..n -> pool]} : n \in 0..MaxParams}

\* The parseable inputs of rule set R.
Inputs(R) ==
  UNION {{b \o (IF q = "" THEN "" ELSE "?" \o q) :
            b \in g.bases, q \in Queries(g.pool)} : g \in Groups(R)}
    \cup {"https://EXAMPLE.com?q=1#top"}

\* Strings that new URL rejects.
InvalidInputs == {"not-a-valid-url", "", "/page?gclid=1", "https://"}

\* The URL objects with a redefined href that rule set R is exercised on: the
\* string each was constructed from ("invalid" is what href is set to).
CorruptInputs(R) ==
  {"https://example.com", "https://example.com/page?q=1",
   "https://example.com/page?utm_source=x&q=1",
   "https://google.com/url?gclid=1&url=https%3A%2F%2Fexample.com%2Ft"}

CorruptHref == "invalid"

(***************************************************************************)
(* sanitizeEmail and the streaming handlers.  An HTML string is a record   *)
(* [form, blank, parses, body, elements]: form tells the argument string   *)
(* ("input") from document.toString() ("document") and body.innerHTML      *)
(* ("body"); elements are the elements the string describes, in order.     *)
(***************************************************************************)
\* <a href=...>; <<>> is an anchor without the attribute.
Anchor(href) ==
  [Element("a", <<>>, <<>>, <<>>, <<<<>>, <<>>>>) EXCEPT !.href = href]

\* mockClearUrlRules of src/__tests__/email-scrubber-core-cases.ts.
EmailRules ==
  << Provider("google.com", "google\\.com",
              <<"gclid", "utm_source", "utm_medium", "utm_campaign">>,
              <<"^https?:\\/\\/google\\.com\\/search\\?q=important&gclid=">>,
              <<>>, <<>>),
     Provider("facebook.com", "facebook\\.com", <<"fbclid", "utm_source">>,
              <<>>, <<>>, <<>>),
     Provider("tracking-domain.com", "tracking-domain\\.com", <<"track_id">>,
              <<>>, <<>>, <<>>) >>

\* document.querySelectorAll("a[href]")
querySelectorAllHref(doc) ==
  SelectSeq(doc, LAMBDA element : element.tag = "a" /\ element.href # <<>>)

\* link.setAttribute("href", value)
setAttribute(doc, link, value) ==
  [k \in 1..Len(doc) |->
     IF doc[k].node = link.node THEN [doc[k] EXCEPT !.href = <<value>>]
     ELSE doc[k]]

\* The state of the loop over the links: the document, urlsCleaned and the
\* hrefs console.warn was called with.
LinkPass(doc) == [document |-> doc, urlsCleaned |-> 0, warned |-> <<>>]

\* A faulty body of the loop that takes the href from a link it cannot clean.
cleanLinkDropping(st, link, originalHref, r) ==
  IF r.threw THEN [st EXCEPT !.document = setAttribute(@, link, "")]
  ELSE IF Href(r.url) # originalHref
    THEN [st EXCEPT !.document = setAttribute(@, link, Href(r.url)),
                    !.urlsCleaned = @ + 1]
  ELSE st

\* The try statement in the loop over the links, for the outcome r of
\* linkCleaner.clean(originalHref).
cleanLinkTry(st, link, originalHref, r) ==
  IF r.threw THEN [st EXCEPT !.warned = Append(@, originalHref)]
  ELSE IF Href(r.url) # originalHref
    THEN [st EXCEPT !.document = setAttribute(@, link, Href(r.url)),
                    !.urlsCleaned = @ + 1]
  ELSE st

\* The body of the loop over the links.
cleanLink(R, C, st, link) ==
  IF link.href[1] = "" THEN st
  ELSE cleanLinkTry(st, link, link.href[1], cleanString(R, C, link.href[1]))

RECURSIVE cleanLinksFrom(_, _, _, _, _)
cleanLinksFrom(R, C, st, links, k) ==
  IF k > Len(links) THEN st
  ELSE cleanLinksFrom(R, C, cleanLink(R, C, st, links[k]), links, k + 1)

\* if (cleanUrls) { ... }, with a LinkCleaner constructed for the call
cleanLinks(R, doc) ==
  cleanLinksFrom(R, compileAll(R), LinkPass(doc), querySelectorAllHref(doc), 1)

\* The images TrackerPixelRemover.clean pushes to imagesToRemove.
trackingImages(opts, doc) ==
  SelectSeq(querySelectorAll(doc, "img"),
            LAMBDA image : isTrackingPixel(opts, image))

RECURSIVE removeFrom(_, _, _)
removeFrom(doc, imagesToRemove, k) ==
  IF k > Len(imagesToRemove) THEN doc
  ELSE removeFrom(remove(doc, imagesToRemove[k]), imagesToRemove, k + 1)

\* new TrackerPixelRemover(given).clean(document): the document it leaves and
\* the number it returns.
cleanPixels(given, doc) ==
  [document |-> removeFrom(doc, trackingImages(mergeOptions(given), doc), 1),
   removed  |-> Len(trackingImages(mergeOptions(given), doc))]

\* The options of sanitizeEmail: a record with some of the fields
\* trackerPixelOptions, cleanUrls, removeTrackingPixels and
\* preserveDocumentStructure.
NoSettings == [f \in {} |-> 0]

\* The defaults of the destructuring assignment.
settingsOf(given) ==
  [trackerPixelOptions |->
     IF "trackerPixelOptions" \in DOMAIN given
       THEN given.trackerPixelOptions ELSE NoOptions,
   cleanUrls |->
     IF "cleanUrls" \in DOMAIN given THEN given.cleanUrls ELSE TRUE,
   removeTrackingPixels |->
     IF "removeTrackingPixels" \in DOMAIN given
       THEN given.removeTrackingPixels ELSE TRUE,
   preserveDocumentStructure |->
     IF "preserveDocumentStructure" \in DOMAIN given
       THEN given.preserveDocumentStructure ELSE TRUE]

\* The HTML string with the given elements, as a caller passes it.
Html(elements, body) ==
  [form |-> "input", blank |-> FALSE, parses |-> TRUE, body |-> body,
   elements |-> elements]

\* "" and strings of white space.
BlankHtml ==
  [form |-> "input", blank |-> TRUE, parses |-> TRUE, body |-> FALSE,
   elements |-> <<>>]

\* document.toString(), or body.innerHTML when the structure is not kept
\* and the document has a body.
serialize(html, doc, preserveDocumentStructure) ==
  [html EXCEPT !.form = IF ~ preserveDocumentStructure /\ html.body
                          THEN "body" ELSE "document",
               !.elements = doc]

\* What sanitizeEmail returns and leaves behind: the result object, the
\* document it worked on, and what it passed to console.warn and
\* console.error.
Sanitized(html, urlsCleaned, trackingPixelsRemoved, doc, warned, failed) ==
  [result |-> [html |-> html, urlsCleaned |-> urlsCleaned,
               trackingPixelsRemoved |-> trackingPixelsRemoved,
               wasModified |-> urlsCleaned > 0 \/ trackingPixelsRemoved > 0],
   document |-> doc, warned |-> warned, failed |-> failed]

\* A faulty end of sanitizeEmail that reports the links it looked at.
sanitizeEndCounting(html, settings, links, pixels) ==
  Sanitized(IF links.urlsCleaned > 0 \/ pixels.removed > 0
              THEN serialize(html, pixels.document,
                             settings.preserveDocumentStructure)
            ELSE html,
            Len(querySelectorAllHref(html.elements)), pixels.removed,
            pixels.document, links.warned, FALSE)

\* The end of the try block: the statistics and the serialization.
sanitizeEnd(html, settings, links, pixels) ==
  Sanitized(IF links.urlsCleaned > 0 \/ pixels.removed > 0
              THEN serialize(html, pixels.document,
                             settings.preserveDocumentStructure)
            ELSE html,
            links.urlsCleaned, pixels.removed, pixels.document, links.warned,
            FALSE)

\* A faulty pixel step that removes tracking pixels whatever the options say.
sanitizePixelsAlways(html, settings, links) ==
  sanitizeEnd(html, settings, links,
              cleanPixels(settings.trackerPixelOptions, links.document))

\* if (removeTrackingPixels) { ... } and what follows it
sanitizePixels(html, settings, links) ==
  sanitizeEnd(html, settings, links,
              IF settings.removeTrackingPixels
                THEN cleanPixels(settings.trackerPixelOptions, links.document)
              ELSE [document |-> links.document, removed |-> 0])

\* sanitizeEmail(html, clearUrlRules, options)
sanitizeEmail(html, clearUrlRules, given) ==
  IF html.blank THEN Sanitized(html, 0, 0, <<>>, <<>>, FALSE)
  ELSE IF ~ html.parses THEN Sanitized(html, 0, 0, <<>>, <<>>, TRUE)
  ELSE sanitizePixels(html, settingsOf(given),
                      IF settingsOf(given).cleanUrls
                        THEN cleanLinks(clearUrlRules, DocumentOf(html.elements))
                      ELSE LinkPass(DocumentOf(html.elements)))

\* A faulty linkHandler that leaves every href as it is.
linkHandlerIdle(R, C, doc, element) == doc

\* The try statement of linkHandler, for the outcome r of
\* linkCleaner.clean(href).
linkHandlerTry(doc, element, r) ==
  IF r.threw THEN doc ELSE setAttribute(doc, element, Href(r.url))

\* linkHandler.element(element)
linkHandlerElement(R, C, doc, element) ==
  IF Falsy(element.href) THEN doc
  ELSE linkHandlerTry(doc, element, cleanString(R, C, element.href[1]))

\* pixelHandler.element(element), with the remover getStreamingHandlers
\* constructs
pixelHandlerElement(doc, element) ==
  IF isTrackingPixel(mergeOptions(NoOptions), element)
    THEN remove(doc, element)
  ELSE doc

(***************************************************************************)
(* The cleaner as a state machine: construction, then calls of clean.      *)
(***************************************************************************)
VARIABLES
  rules,            \* this.rules
  cachedProviders,  \* this.cachedProviders
  pc,               \* "idle", "running", or how the last call of clean ended
  input,            \* the argument of the last call: [kind, str]
  result,           \* the URL it returned
  same,             \* the returned object is the argument object
  self,             \* the argument object after the call
  depth,            \* nested invocations of clean in the last call
  provider,         \* what findProvider returned in the outermost invocation
  again,            \* the last call cleaned the result of the call before
  first,            \* the result of the call before, when again
  stack,            \* the activations of clean, outermost first
  plan,             \* the stacks the running call goes through from here
  error,            \* the message of the error the last call threw
  console,          \* what console.error was called with, in order
  options,          \* this.options of the TrackerPixelRemover
  at,               \* "idle", "clean", "returned" or "called"
  document,         \* the elements of the document, in document order
  before,           \* the document as clean received it
  images,           \* Array.from(images) in clean
  imagesToRemove,   \* imagesToRemove in clean
  iteration,        \* the iteration clean is at, over both of its loops
  removedCount,     \* what clean returned
  img,              \* the argument of the last call of isTrackingPixel
  verdict,          \* what isTrackingPixel returned
  emailMode,        \* "idle", "sanitized", "streaming" or "streamed"
  emailHtml,        \* the HTML string sanitized or streamed last
  emailOptions,     \* the options sanitizeEmail was called with
  emailResult,      \* what sanitizeEmail returned and left behind
  streamed,         \* the elements of the rewritten stream so far
  streamAt          \* the element of emailHtml the rewriter is at

\* The state of a call of the TrackerPixelRemover.
remover == <<at, document, before, images, imagesToRemove, iteration,
             removedCount,
             img, verdict>>

\* The state of a call of sanitizeEmail or of a rewriter with the handlers.
sanitizer == <<emailMode, emailHtml, emailOptions, emailResult, streamed,
               streamAt>>

vars == <<rules, cachedProviders, pc, input, result, same, self, depth,
          provider, again, first, stack, plan, error, console, options,
          remover, sanitizer>>

NoUrl == BadUrl
NoInput == [kind |-> "none", str |-> "", own |-> ""]

Idle ==
  /\ pc = "idle"
  /\ input = NoInput
  /\ result = NoUrl
  /\ same = FALSE
  /\ self = NoUrl
  /\ depth = 0
  /\ provider = 0
  /\ again = FALSE
  /\ first = NoUrl
  /\ stack = <<>>
  /\ plan = <<>>
  /\ error = ""

NoElement ==
  [node |-> 0, tag |-> "", src |-> <<>>, alt |-> <<>>, style |-> <<>>,
   width |-> <<>>, height |-> <<>>, href |-> <<>>]

\* No call of the TrackerPixelRemover is under way or has ended.
IdleRemover ==
  /\ at = "idle"
  /\ document = <<>>
  /\ before = <<>>
  /\ images = <<>>
  /\ imagesToRemove = <<>>
  /\ iteration = 0
  /\ removedCount = 0
  /\ img = NoElement
  /\ verdict = FALSE

\* No call of sanitizeEmail has ended and no stream is being rewritten.
IdleSanitizer ==
  /\ emailMode = "idle"
  /\ emailHtml = BlankHtml
  /\ emailOptions = NoSettings
  /\ emailResult = Sanitized(BlankHtml, 0, 0, <<>>, <<>>, FALSE)
  /\ streamed = <<>>
  /\ streamAt = 0

\* The constructor's work on this.rules, and the state before any call.
Constructed ==
  /\ cachedProviders = compileAll(rules)
  /\ console = errorsOfAll(rules, 1)
  /\ Idle

\* new LinkCleaner(rules)
Init ==
  /\ rules \in RuleSets
  /\ Constructed
  /\ options = mergeOptions(NoOptions)
  /\ IdleRemover
  /\ IdleSanitizer

\* this.cachedProviders after a call of clean that ended as r: the field is
\* assigned in the constructor only, and clean reads it through getProvider.
cachedProvidersEvicting(C, r) ==
  [k \in DOMAIN C |-> IF k = r.provider THEN compileProvider(Provider("", "", <<>>, <<>>, <<>>, <<>>))
                       ELSE C[k]]

cachedProvidersAfter(C, r) == C

Record(r) ==
  /\ cachedProviders' = cachedProvidersAfter(cachedProviders, r)
  /\ pc' = IF r.threw THEN "threw" ELSE "returned"
  /\ result' = r.url
  /\ same' = r.same
  /\ self' = r.self
  /\ depth' = r.depth
  /\ provider' = r.provider
  /\ error' = r.message

\* clean(s) for a string s
CleanString ==
  /\ pc = "idle"
  /\ \E s \in Inputs(rules) \cup InvalidInputs :
       /\ input' = [kind |-> "string", str |-> s, own |-> ""]
       /\ Record(cleanString(rules, cachedProviders, s))
  /\ UNCHANGED <<sanitizer, options, remover, console, rules, again, first, stack, plan>>

\* clean(new URL(s))
CleanObject ==
  /\ pc = "idle"
  /\ \E s \in Inputs(rules) :
       /\ input' = [kind |-> "URL", str |-> s, own |-> ""]
       /\ Record(cleanUrl(rules, cachedProviders, ParseUrl(s).url))
  /\ UNCHANGED <<sanitizer, options, remover, console, rules, again, first, stack, plan>>

\* clean(u) for u = new URL(s) after
\* Object.defineProperty(u, "href", { value: "invalid" })
CleanCorrupted ==
  /\ pc = "idle"
  /\ \E s \in CorruptInputs(rules) :
       /\ input' = [kind |-> "URL", str |-> s, own |-> CorruptHref]
       /\ Record(cleanUrl(rules, cachedProviders,
                          DefineHref(ParseUrl(s).url, CorruptHref)))
  /\ UNCHANGED <<sanitizer, options, remover, console, rules, again, first, stack, plan>>

\* clean(r) for the URL r the last call returned
CleanAgain ==
  /\ pc = "returned"
  /\ ~ again
  /\ again' = TRUE
  /\ first' = result
  /\ Record(cleanUrl(rules, cachedProviders, result))
  /\ UNCHANGED <<sanitizer, options, remover, console, rules, input, stack, plan>>

\* the caller drops the result
Reset ==
  /\ pc \in {"returned", "threw"}
  /\ pc' = "idle"
  /\ input' = NoInput
  /\ result' = NoUrl
  /\ same' = FALSE
  /\ self' = NoUrl
  /\ depth' = 0
  /\ provider' = 0
  /\ again' = FALSE
  /\ first' = NoUrl
  /\ error' = ""
  /\ UNCHANGED <<sanitizer, options, remover, console, rules, cachedProviders, stack, plan>>

Next == CleanString \/ CleanObject \/ CleanCorrupted \/ CleanAgain \/ Reset

Spec == Init /\ [][Next]_vars

\* new LinkCleaner(rules) for rules with patterns that do not compile
InitInvalid ==
  /\ rules \in InvalidRuleSets
  /\ Constructed
  /\ options = mergeOptions(NoOptions)
  /\ IdleRemover
  /\ IdleSanitizer

SpecInvalid == InitInvalid /\ [][Next]_vars

\* new LinkCleaner(rules) for the rules with two redirection parameters
InitRedirect ==
  /\ rules = RedirectRules
  /\ Constructed
  /\ options = mergeOptions(NoOptions)
  /\ IdleRemover
  /\ IdleSanitizer

SpecRedirect == InitRedirect /\ [][Next]_vars

(***************************************************************************)
(* clean statement by statement.  Every activation of clean is a frame     *)
(* [url, at, provider, k]: the URL object it works on, the statement it    *)
(* stands at, what findProvider gave it and the position of its            *)
(* redirection loop in keys().  The stack holds at most MaxStack frames:   *)
(* an activation that would have to go beyond takes no step.               *)
(***************************************************************************)
MaxStack == MaxNest + 2

Frame(urlObject) == [url |-> urlObject, at |-> "search", provider |-> 0, k |-> 0]

\* if (urlObject.search.length === 0) return urlObject
searchStep(f) ==
  [f EXCEPT !.at = IF Len(Search(f.url)) = 0 THEN "return" ELSE "global"]

\* the global pass
globalStep(R, C, f) == [f EXCEPT !.url = globalPass(R, C, f.url), !.at = "find"]

FoundProvider(f, specificProvider) ==
  [f EXCEPT !.provider = specificProvider, !.k = 1,
            !.at = IF specificProvider = 0 THEN "return" ELSE "redirect"]

\* findProvider, and the return when it gives null
findStep(R, C, f) == FoundProvider(f, findProvider(R, C, f.url))

\* cleanParams with the specific provider
paramsStep(C, f) ==
  [f EXCEPT !.url = cleanParams(f.url, C[f.provider]), !.at = "return"]

\* The redirection loop is over for frame f: the provider has no
\* redirections, or keys() is exhausted.
loopDone(C, f) ==
  C[f.provider].redirections.null \/ f.k > Len(Keys(f.url))

\* One turn of the redirection loop on the stack stk with top frame f: the
\* nested clean is entered, or the loop moves on (also from the catch
\* block), or it is over.
redirectStep(C, stk, f) ==
  IF loopDone(C, f)
  THEN [stk EXCEPT ![Len(stk)] = [f EXCEPT !.at = "params"]]
  ELSE IF follows(f.url, C[f.provider], f.k)
  THEN IF Len(stk) < MaxStack
       THEN Append([stk EXCEPT ![Len(stk)] = [f EXCEPT !.at = "nested"]],
                   Frame(ParseUrl(redirectTarget(f.url, f.k)).url))
       ELSE stk
  ELSE [stk EXCEPT ![Len(stk)] = [f EXCEPT !.k = f.k + 1]]

\* "return this.clean(redirectUrl)": the frame below the top returns the
\* URL the top frame returns.
returnStep(stk) ==
  IF Len(stk) = 1 THEN stk
  ELSE [SubSeq(stk, 1, Len(stk) - 1)
          EXCEPT ![Len(stk) - 1] =
            [stk[Len(stk) - 1] EXCEPT !.url = stk[Len(stk)].url,
                                      !.at = "return"]]

\* The stack after the next statement of the running activation; the stack
\* itself when there is none to take.
StepStack(R, C, stk) ==
  CASE stk[Len(stk)].at = "search" ->
         [stk EXCEPT ![Len(stk)] = searchStep(stk[Len(stk)])]
    [] stk[Len(stk)].at = "global" ->
         [stk EXCEPT ![Len(stk)] = globalStep(R, C, stk[Len(stk)])]
    [] stk[Len(stk)].at = "find" ->
         [stk EXCEPT ![Len(stk)] = findStep(R, C, stk[Len(stk)])]
    [] stk[Len(stk)].at = "redirect" -> redirectStep(C, stk, stk[Len(stk)])
    [] stk[Len(stk)].at = "params" ->
         [stk EXCEPT ![Len(stk)] = paramsStep(C, stk[Len(stk)])]
    [] stk[Len(stk)].at = "return" -> returnStep(stk)
    [] OTHER -> stk

RECURSIVE PlanFrom(_, _, _)
\* The stacks a call goes through after stk, as its statements produce them.
PlanNext(R, C, stk, next) ==
  IF next = stk THEN <<>> ELSE <<next>> \o PlanFrom(R, C, next)

PlanFrom(R, C, stk) == PlanNext(R, C, stk, StepStack(R, C, stk))

Top == stack[Len(stack)]

\* The running activation takes its next statement.  (The statements of a
\* call are worked out when the call is entered, and taken one by one.)
Advance ==
  /\ plan # <<>>
  /\ stack' = Head(plan)
  /\ plan' = Tail(plan)
  /\ depth' = IF Len(Head(plan)) > Len(stack) THEN depth + 1 ELSE depth
  /\ UNCHANGED <<sanitizer, options, remover, console, rules, cachedProviders, pc, input, result, same, self,
                 provider, again, first, error>>

\* clean(s) is called with a string: new URL(s) throws, or the body starts
Enter ==
  /\ pc = "idle"
  /\ \E s \in Inputs(rules) \cup InvalidInputs :
       /\ input' = [kind |-> "string", str |-> s, own |-> ""]
       /\ error' = IF ParseUrl(s).ok THEN "" ELSE InvalidUrl(Threw, s).message
       /\ IF ParseUrl(s).ok
          THEN /\ pc' = "running"
               /\ stack' = <<Frame(ParseUrl(s).url)>>
               /\ plan' = PlanFrom(rules, cachedProviders,
                                   <<Frame(ParseUrl(s).url)>>)
               /\ depth' = 1
          ELSE /\ pc' = "threw"
               /\ UNCHANGED <<stack, plan, depth>>
  /\ UNCHANGED <<sanitizer, options, remover, console, rules, cachedProviders, result, same, self, provider, again,
                 first>>

\* if (urlObject.search.length === 0) return urlObject
SearchCheck == pc = "running" /\ Top.at = "search" /\ Advance

\* the global pass
GlobalPass == pc = "running" /\ Top.at = "global" /\ Advance

\* findProvider, and the return when it gives null
FindProvider == pc = "running" /\ Top.at = "find" /\ Advance

\* one turn of the redirection loop
RedirectLoop == pc = "running" /\ Top.at = "redirect" /\ Advance

\* cleanParams with the specific provider
CleanParams == pc = "running" /\ Top.at = "params" /\ Advance

\* a nested clean returns to the activation that called it
ReturnNested ==
  pc = "running" /\ Top.at = "return" /\ Len(stack) > 1 /\ Advance

\* the outermost activation returns to the caller of clean
Return ==
  /\ pc = "running"
  /\ Top.at = "return"
  /\ Len(stack) = 1
  /\ pc' = "returned"
  /\ result' = Top.url
  /\ provider' = Top.provider
  /\ stack' = <<>>
  /\ plan' = <<>>
  /\ UNCHANGED <<sanitizer, options, remover, console, rules, cachedProviders, input, same, self, depth, again,
                 first, error>>

Run ==
  \/ SearchCheck
  \/ GlobalPass
  \/ FindProvider
  \/ RedirectLoop
  \/ CleanParams
  \/ ReturnNested
  \/ Return

NextRec ==
  \/ Enter
  \/ SearchCheck
  \/ GlobalPass
  \/ FindProvider
  \/ RedirectLoop
  \/ CleanParams
  \/ ReturnNested
  \/ Return
  \/ Reset

\* clean runs synchronously: a call that has started keeps taking steps.
SpecRec == Init /\ [][NextRec]_vars /\ WF_vars(Run)

(***************************************************************************)
(* The TrackerPixelRemover as a state machine: construction, then calls of *)
(* isTrackingPixel and of clean, the latter iteration by iteration.        *)
(***************************************************************************)
\* new TrackerPixelRemover(options), next to a LinkCleaner
InitPixel ==
  /\ rules = MinimalRules
  /\ Constructed
  /\ options \in {mergeOptions(GivenOptions[i]) : i \in 1..Len(GivenOptions)}
  /\ IdleRemover
  /\ IdleSanitizer

\* isTrackingPixel(img), called from outside
IsTrackingPixel ==
  /\ at = "idle"
  /\ \E element \in ImagePool :
       /\ img' = element
       /\ verdict' = isTrackingPixel(options, element)
  /\ at' = "called"
  /\ UNCHANGED <<document, before, images, imagesToRemove, iteration, removedCount>>

\* clean(document) up to its first loop
Clean ==
  /\ at = "idle"
  /\ \E doc \in Documents :
       /\ document' = doc
       /\ before' = doc
       /\ images' = querySelectorAll(doc, "img")
  /\ imagesToRemove' = <<>>
  /\ iteration' = 1
  /\ at' = "clean"
  /\ UNCHANGED <<removedCount, img, verdict>>

\* One iteration of the loop over the images.
Classify ==
  /\ at = "clean"
  /\ iteration <= Len(images)
  /\ imagesToRemove' = IF isTrackingPixel(options, images[iteration])
                       THEN Append(imagesToRemove, images[iteration])
                       ELSE imagesToRemove
  /\ iteration' = iteration + 1
  /\ UNCHANGED <<at, document, before, images, removedCount, img, verdict>>

\* One iteration of the loop over imagesToRemove.
Remove ==
  /\ at = "clean"
  /\ iteration > Len(images)
  /\ iteration <= Len(images) + Len(imagesToRemove)
  /\ document' = remove(document, imagesToRemove[iteration - Len(images)])
  /\ iteration' = iteration + 1
  /\ UNCHANGED <<at, before, images, imagesToRemove, removedCount, img, verdict>>

\* return imagesToRemove.length
ReturnLength ==
  /\ at = "clean"
  /\ iteration > Len(images) + Len(imagesToRemove)
  /\ removedCount' = Len(imagesToRemove)
  /\ at' = "returned"
  /\ UNCHANGED <<document, before, images, imagesToRemove, iteration, img, verdict>>

\* The caller goes on to its next call.
ResetRemover ==
  /\ at \in {"called", "returned"}
  /\ at' = "idle"
  /\ document' = <<>>
  /\ before' = <<>>
  /\ images' = <<>>
  /\ imagesToRemove' = <<>>
  /\ iteration' = 0
  /\ removedCount' = 0
  /\ img' = NoElement
  /\ verdict' = FALSE

Cleaner == <<rules, cachedProviders, pc, input, result, same, self, depth,
             provider, again, first, stack, plan, error, console>>

NextPixel ==
  /\ \/ IsTrackingPixel
     \/ Clean
     \/ Classify
     \/ Remove
     \/ ReturnLength
     \/ ResetRemover
  /\ UNCHANGED <<sanitizer, options, Cleaner>>

SpecPixel == InitPixel /\ [][NextPixel]_vars

(***************************************************************************)
(* sanitizeEmail and a rewriter with the streaming handlers as a state     *)
(* machine.  A call of sanitizeEmail is one step; the rewriter hands the   *)
(* elements to the handlers one at a time, in document order.              *)
(***************************************************************************)
\* The elements the documents are made of, in the order they keep.
EmailPool ==
  <<Anchor(<<"https://google.com/page1?gclid=123">>),
    Anchor(<<"https://example.com/page?param=value">>),
    Anchor(<<"https://example.com">>),
    Anchor(<<"not-a-valid-url">>),
    Anchor(<<"">>),
    Element("img", <<"https://google-analytics.com/pixel1.gif">>, <<>>, <<>>,
            <<<<"1">>, <<"1">>>>),
    Element("img", <<"https://example.com/image.jpg">>, <<"Image">>, <<>>,
            <<<<"200">>, <<"150">>>>),
    Element("img", <<"pixel.gif">>, <<>>, <<>>, <<<<"3">>, <<"3">>>>),
    Anchor(<<"https://facebook.com/page2?fbclid=456&id=1">>)>>

\* The elements of EmailPool at the positions in chosen, in order.
Chosen(chosen) ==
  SelectSeq([k \in 1..Len(EmailPool) |-> IF k \in chosen THEN EmailPool[k]
                                         ELSE NoElement],
            LAMBDA element : element # NoElement)

\* Two tracking links and three tracking pixels.
CountingElements ==
  <<EmailPool[1], EmailPool[6], EmailPool[9], EmailPool[6], EmailPool[6]>>

EmailDocuments ==
  {Chosen(chosen) : chosen \in {c \in SUBSET (1..Len(EmailPool)) :
                                  Cardinality(c) <= MaxElements}}
  \cup {CountingElements}

\* The documents given as a fragment, without a body element.
Fragments ==
  {elements \in EmailDocuments : Len(elements) <= 1} \cup {CountingElements}

\* The HTML strings sanitizeEmail is called with: blank ones, whole
\* documents and fragments.  parseHTML may throw.
EmailHtmls ==
  {BlankHtml}
  \cup {Html(elements, TRUE) : elements \in EmailDocuments}
  \cup {Html(elements, FALSE) : elements \in Fragments}
  \cup {[Html(elements, TRUE) EXCEPT !.parses = FALSE] :
          elements \in EmailDocuments}

EmailSettings ==
  {NoSettings,
   [cleanUrls |-> FALSE],
   [removeTrackingPixels |-> FALSE],
   [cleanUrls |-> FALSE, removeTrackingPixels |-> FALSE],
   [preserveDocumentStructure |-> FALSE],
   [trackerPixelOptions |-> [maxPixelSize |-> CustomMaxPixelSize]]}

InitEmail ==
  /\ rules = EmailRules
  /\ Constructed
  /\ options = mergeOptions(NoOptions)
  /\ IdleRemover
  /\ IdleSanitizer

\* sanitizeEmail(html, rules, given)
SanitizeEmail ==
  /\ emailMode = "idle"
  /\ \E html \in EmailHtmls, given \in EmailSettings :
       /\ emailHtml' = html
       /\ emailOptions' = given
       /\ emailResult' = sanitizeEmail(html, rules, given)
  /\ emailMode' = "sanitized"
  /\ UNCHANGED <<streamed, streamAt>>

\* A rewriter with the handlers of getStreamingHandlers(rules) starts on a
\* document.
Rewrite ==
  /\ emailMode = "idle"
  /\ \E elements \in EmailDocuments :
       /\ emailHtml' = Html(elements, TRUE)
       /\ streamed' = DocumentOf(elements)
  /\ streamAt' = 1
  /\ emailMode' = "streaming"
  /\ UNCHANGED <<emailOptions, emailResult>>

\* The element the rewriter is at.
Current == DocumentOf(emailHtml.elements)[streamAt]

\* The rewriter is at an element that matches "a[href]".
LinkHandler ==
  /\ emailMode = "streaming"
  /\ streamAt <= Len(emailHtml.elements)
  /\ Current.tag = "a" /\ Current.href # <<>>
  /\ streamed' = linkHandlerElement(rules, cachedProviders, streamed, Current)
  /\ streamAt' = streamAt + 1
  /\ UNCHANGED <<emailMode, emailHtml, emailOptions, emailResult>>

\* The rewriter is at an element that matches "img".
PixelHandler ==
  /\ emailMode = "streaming"
  /\ streamAt <= Len(emailHtml.elements)
  /\ Current.tag = "img"
  /\ streamed' = pixelHandlerElement(streamed, Current)
  /\ streamAt' = streamAt + 1
  /\ UNCHANGED <<emailMode, emailHtml, emailOptions, emailResult>>

\* The rewriter reaches the end of the document.
EndRewrite ==
  /\ emailMode = "streaming"
  /\ streamAt > Len(emailHtml.elements)
  /\ emailMode' = "streamed"
  /\ UNCHANGED <<emailHtml, emailOptions, emailResult, streamed, streamAt>>

\* The caller goes on to its next document.
ResetSanitizer ==
  /\ emailMode \in {"sanitized", "streamed"}
  /\ emailMode' = "idle"
  /\ emailHtml' = BlankHtml
  /\ emailOptions' = NoSettings
  /\ emailResult' = Sanitized(BlankHtml, 0, 0, <<>>, <<>>, FALSE)
  /\ streamed' = <<>>
  /\ streamAt' = 0

NextEmail ==
  /\ \/ SanitizeEmail
     \/ Rewrite
     \/ LinkHandler
     \/ PixelHandler
     \/ EndRewrite
     \/ ResetSanitizer
  /\ UNCHANGED <<options, remover, Cleaner>>

SpecEmail == InitEmail /\ [][NextEmail]_vars

(***************************************************************************)
(* Properties of clean.  They are stated on the call that has just         *)
(* returned: u0 is the URL it was given, result the URL it returned.       *)
(***************************************************************************)
u0 == DefineHref(ParseUrl(input.str).url, input.own)

\* The last call returned, and it was not a second cleaning.
Returned == pc = "returned" /\ ~ again

\* Some pattern of the list matches t (new RegExp(p, "i").test(t)).
AnyMatches(patterns, t) == \E i \in 1..Len(patterns) : RegexTest(patterns[i], t)

\* The providers other than the global one, by position in the rule set.
Specific == {k \in 1..Len(rules) : rules[k].key # GlobalKey}

HasGlobal == \E k \in 1..Len(rules) : rules[k].key = GlobalKey

\* The removal patterns of provider k: rules plus referral.
Removal(k) == rules[k].rules \o rules[k].referral

GlobalRemoval ==
  IF HasGlobal THEN Removal(CHOOSE k \in 1..Len(rules) : rules[k].key = GlobalKey)
  ELSE <<>>

UrlMatches(k, u) == RegexTest(rules[k].urlPattern, Href(u))

Excepted(k, u) == AnyMatches(rules[k].exceptions, Href(u))

HasParam(u, pair) ==
  \E j \in 1..Len(SearchParams(u)) : SearchParams(u)[j] = pair

SomeNameMatches(u, patterns) ==
  \E i \in 1..Len(Keys(u)) : AnyMatches(patterns, Keys(u)[i])

NoNameMatches(u, patterns) == ~ SomeNameMatches(u, patterns)

\* The pairs of ps whose name matches no pattern of the list.
NotMatching(ps, patterns) ==
  Pick(ps, SortedSeq({k \in 1..Len(ps) : ~ AnyMatches(patterns, ps[k][1])}))

\* The pairs of ps without those whose name matches R and not E.
Retained(ps, R, E) ==
  Pick(ps, SortedSeq({k \in 1..Len(ps) :
                        ~ (AnyMatches(R, ps[k][1]) /\ ~ AnyMatches(E, ps[k][1]))}))

\* No empty piece between, before or after the "&" of a query.
NoArtifacts(q) ==
  \A i \in Positions("&", q) :
    i # 1 /\ i # Len(q) /\ (i + 1) \notin Positions("&", q)

\* C1: when clean selects a provider P and no redirection fires, every
\* parameter of u whose name matches P.rules or P.referral and also matches
\* P.exceptions is still present in clean(u).
C1_ExceptionPrecedence ==
  (Returned /\ provider # 0 /\ depth = 1) =>
    \A i \in 1..Len(SearchParams(u0)) :
      (/\ AnyMatches(Removal(provider), SearchParams(u0)[i][1])
       /\ AnyMatches(rules[provider].exceptions, SearchParams(u0)[i][1]))
        => HasParam(result, SearchParams(u0)[i])

\* Some provider's urlPattern and one of its exceptions match u.
SomeExcepted(u) == \E k \in Specific : UrlMatches(k, u) /\ Excepted(k, u)

\* Every provider whose urlPattern matches u has an exception matching u.
AllExcepted(u) == \A k \in Specific : UrlMatches(k, u) => Excepted(k, u)

RedirectCandidates(u, P) ==
  {i \in 1..Len(RawPairs(u)) :
     /\ AnyMatches(rules[P].redirections, FormDecode(RawPairs(u)[i][1]))
     /\ RawPairs(u)[i][2] # ""
     /\ ParseUrl(PercentDecode(RawPairs(u)[i][2])).ok}

\* C3: if the selected provider has a redirection pattern matching the name
\* of a parameter of u whose non-empty value v percent-decodes to a
\* parseable URL (the first such parameter), clean(u) = clean(decode(v)).
C3_RedirectionResolution ==
  (Returned /\ provider # 0 /\ RedirectCandidates(u0, provider) # {}) =>
    result = cleanString(rules, cachedProviders,
               PercentDecode(
                 RawPairs(u0)[Min(RedirectCandidates(u0, provider))][2])).url

\* C4: every call of clean on a URL that parses comes to an end and returns
\* a URL (it never raises), also along chains of nested redirections through
\* providers that declare redirections themselves; and the steps it takes
\* on the way are the statements of clean, one after the other.
C4_Terminates ==
  /\ (pc = "running") ~> (pc = "returned")
  /\ [][stack # <<>> /\ stack' # <<>>
         => stack' = StepStack(rules, cachedProviders, stack)]_vars

\* C4 witness: a call that went through more than MaxNest nested
\* invocations of clean has returned.
C4_Witness == pc = "returned" /\ stack = <<>> /\ depth > MaxNest

\* C5: clean(clean(u)) = clean(u).
C5_Idempotence == (pc = "returned" /\ again) => result = first

\* The first provider, in rule-set order and the global key left out, whose
\* urlPattern matches u; 0 if there is none.
FirstMatching(u) == FirstOf({k \in Specific : UrlMatches(k, u)})

\* The same, providers with an exception matching u left out as well.
Eligible(u) == {k \in Specific : UrlMatches(k, u) /\ ~ Excepted(k, u)}

FirstEligible(u) == FirstOf(Eligible(u))

\* u after the removal of the parameters matching the global rules.
GloballyCleaned(u) ==
  IF NoNameMatches(u, GlobalRemoval) THEN u
  ELSE SetQuery(u, SerializeParams(NotMatching(SearchParams(u), GlobalRemoval)))

C8_MinimalRulesTwoPass ==
  (Returned /\ rules = MinimalRules /\ depth = 1) =>
    /\ NoNameMatches(result, rules[1].rules)
    /\ \A k \in 2..Len(rules) :
         UrlMatches(k, u0) => NoNameMatches(result, rules[k].rules)

\* C9: when a provider with removal patterns R (rules plus referral) and
\* exceptions E is selected and no redirection fires, the parameters of
\* clean(u) are those of u (as the global pass left them) without the ones
\* whose name matches R and not E, in their order, and the query has no
\* empty piece.
C9_ParameterRemoval ==
  (Returned /\ provider # 0 /\ depth = 1) =>
    /\ SearchParams(result) =
         Retained(SearchParams(GloballyCleaned(u0)), Removal(provider),
                  rules[provider].exceptions)
    /\ NoArtifacts(result.query)

\* No specific provider's urlPattern matches u and no global rule matches a
\* parameter of u.
NoMatch(u) ==
  /\ \A k \in Specific : ~ UrlMatches(k, u)
  /\ NoNameMatches(u, GlobalRemoval)

\* C10: if no specific provider's urlPattern matches u and no global rule
\* matches a parameter of u, clean(u) returns u unchanged, and for a URL
\* object it returns that very object, untouched.
C10_NoMatchPassthrough ==
  (Returned /\ NoMatch(u0)) =>
    /\ result = u0
    /\ depth = 1
    /\ input.kind = "URL" => (same /\ self = u0)

\* C10 witness: a URL object with parameters, given to a cleaner that has a
\* global provider, came back as the same object.
C10_Witness ==
  /\ Returned
  /\ NoMatch(u0)
  /\ HasGlobal
  /\ input.kind = "URL"
  /\ Len(Keys(u0)) > 0
  /\ same
  /\ result = u0

\* The URL object given to the last call is not valid: its href is not
\* something new URL accepts.
InvalidObject == input.kind = "URL" /\ ~ ParseUrl(Href(u0)).ok

\* C11: clean(s) for a string s that new URL rejects throws the error
\* "Invalid URL provided: <s>" and gives no result; clean of a URL object
\* never throws, and an invalid URL object comes back as the same object,
\* unchanged.
C11_InvalidInput ==
  (pc \in {"returned", "threw"} /\ ~ again) =>
    /\ (input.kind = "string" /\ ~ ParseUrl(input.str).ok) =>
         /\ pc = "threw"
         /\ error = "Invalid URL provided: " \o input.str
         /\ result = NoUrl
    /\ input.kind = "URL" => pc = "returned"
    /\ InvalidObject => (same /\ self = u0 /\ result = u0)

\* The providers of the rule set whose urlPattern does not compile.
InvalidUrlPattern == {k \in 1..Len(rules) : ~ ValidRegex(rules[k].urlPattern)}

\* The rule set R without the providers at the positions in S.
WithoutProviders(R, S) == Pick(R, SortedSeq((1..Len(R)) \ S))

\* What clean(u) returns for a cleaner constructed from rule set R.
CleanWith(R, u) == cleanUrl(R, compileAll(R), u).url

Logged(message) == \E i \in 1..Len(console) : console[i] = message

\* Each invalid urlPattern was reported by console.error.
UrlPatternsLogged ==
  \A k \in InvalidUrlPattern :
    Logged("Invalid URL regex for provider " \o rules[k].key \o ": "
             \o rules[k].urlPattern)

ValidEntries(patterns) ==
  Pick(patterns, SortedSeq({i \in 1..Len(patterns) : ValidRegex(patterns[i])}))

\* The rule set R with every invalid entry dropped from the lists of its
\* providers.
DropInvalidEntries(R) ==
  [k \in 1..Len(R) |->
     [R[k] EXCEPT !.rules = ValidEntries(R[k].rules),
                  !.exceptions = ValidEntries(R[k].exceptions),
                  !.redirections = ValidEntries(R[k].redirections),
                  !.referral = ValidEntries(R[k].referral)]]

\* C13: an invalid entry of a provider's rules, exceptions, redirections or
\* referral list is dropped alone: clean returns what a cleaner constructed
\* from the rule set without the invalid entries returns.
C13_PerEntryFailure ==
  Returned => result = CleanWith(DropInvalidEntries(rules), u0)

\* The parameters of u (by position) whose name matches a redirection
\* pattern of provider P.
RedirectParameters(u, P) ==
  {i \in 1..Len(RawPairs(u)) :
     AnyMatches(rules[P].redirections, FormDecode(RawPairs(u)[i][1]))}

\* C14: when provider P is selected and every redirection parameter of u
\* has an empty value or a value that does not percent-decode to something
\* new URL accepts, clean follows no redirection: it returns u without the
\* parameters matching the global rules and P's rules and referral, and
\* with its redirection parameters.
C14_RedirectionFallback ==
  (/\ Returned
   /\ provider # 0
   /\ RedirectParameters(u0, provider) # {}
   /\ RedirectCandidates(u0, provider) = {}) =>
    /\ depth = 1
    /\ SearchParams(result) =
         NotMatching(SearchParams(u0), GlobalRemoval \o Removal(provider))
    /\ \A i \in RedirectParameters(u0, provider) :
         HasParam(result, SearchParams(u0)[i])


(***************************************************************************)
(* Properties of the TrackerPixelRemover.  They are stated on the call of  *)
(* isTrackingPixel that has just returned (img, verdict) and on the call   *)
(* of clean that has just returned (before, document, removedCount).       *)
(***************************************************************************)
Called == at = "called"

Cleaned == at = "returned"

\* The src attribute is absent or empty.
NoSrc(element) == element.src = <<>> \/ element.src = <<"">>

\* The element is still in the document.
Kept(element) == \E k \in 1..Len(document) : document[k] = element

\* C15: isTrackingPixel returns false for every image whose src attribute is
\* absent or empty, whatever its other attributes are, and clean never
\* removes such an image.
C15_MissingSrcGuard ==
  /\ Called /\ NoSrc(img) => verdict = FALSE
  /\ Cleaned => \A k \in 1..Len(before) :
                  before[k].tag = "img" /\ NoSrc(before[k]) => Kept(before[k])

\* The strong signals of the image, under the options of the remover.
DomainSignal(element) == hasTrackingDomain(options, element)

ParameterSignal(element) == hasTrackingParameters(options, element)

HiddenSignal(element) == isHidden(element)

Strong(element) ==
  DomainSignal(element) \/ ParameterSignal(element) \/ HiddenSignal(element)

\* C16: for an image with a non-empty src, isTrackingPixel returns true
\* whenever the domain signal, the tracking-parameter signal or the
\* hidden-style signal holds, whatever the size, alt text and transparency of
\* the image and the removeNoAltImages and removeTransparentImages options.
C16_StrongSignalsDecisive ==
  Called /\ ~ NoSrc(img) /\ Strong(img) => verdict = TRUE

\* A strong signal decided for an image that has an alt text and no small
\* size under options that count no weak signal.
C16_Witness ==
  /\ Called /\ ~ NoSrc(img) /\ HiddenSignal(img)
  /\ ~ DomainSignal(img) /\ ~ ParameterSignal(img)
  /\ img.alt = <<"Company Logo">> /\ img.width = <<"200">>
  /\ ~ options.removeNoAltImages /\ ~ options.removeTransparentImages
  /\ verdict = TRUE

\* The weak signals of the image that hold and that the options count.
WeakSignals(element) ==
  {signal \in {"size", "alt", "transparent"} :
     \/ signal = "size" /\ hasTrackingPixelDimensions(options, element)
     \/ signal = "alt" /\ options.removeNoAltImages /\ hasNoAltText(element)
     \/ signal = "transparent" /\ options.removeTransparentImages
                               /\ isTransparent(element)}

\* The image is 1x1 by its width and height attributes.
OneByOne(element) == element.width = <<"1">> /\ element.height = <<"1">>

\* C17: when no strong signal holds, isTrackingPixel returns true if and only
\* if at least two of the three weak signals hold (small size; transparency,
\* counted when removeTransparentImages is on; absent, empty or blank alt
\* text, counted when removeNoAltImages is on).  A 1x1 image without alt text
\* is removed, and the same image with a descriptive alt text, not
\* transparent, is kept.
C17_WeakSignalPairs ==
  Called /\ ~ Strong(img) =>
    /\ verdict = (Cardinality(WeakSignals(img)) >= 2)
    /\ OneByOne(img) /\ img.alt \in {<<>>, <<"">>, <<"  ">>}
         /\ options.removeNoAltImages => verdict = TRUE
    /\ OneByOne(img) /\ img.alt = <<"Company Logo">>
         /\ "transparent" \notin WeakSignals(img) => verdict = FALSE

\* Images decided by the weak signals alone: one removed on two signals, or
\* one kept on a single signal.
C17_Witness ==
  /\ Called /\ ~ Strong(img)
  /\ \/ Cardinality(WeakSignals(img)) = 2 /\ verdict = TRUE /\ OneByOne(img)
     \/ Cardinality(WeakSignals(img)) = 1 /\ verdict = FALSE /\ OneByOne(img)

\* The image shows no signal other than, possibly, the domain signal.
Plain(element) ==
  /\ element.alt = <<"Company Logo">>
  /\ element.style = <<>>
  /\ element.width = <<"200">>
  /\ ~ ParameterSignal(element)

\* What new URL makes of the src of the element.
Parsed(element) == ParseUrl(element.src[1])

HostOf(parsed) == ToLower(parsed.url.host)

\* The host is the domain, or a name below it.
OnDotBoundary(host, domain) ==
  \/ host = domain
  \/ /\ Len(host) > Len(domain) + 1
     /\ Suffix(host, Len(host) - Len(domain)) = "." \o domain

\* Some tracking domain is on a dot boundary of the host.
Tracked(host) ==
  \E i \in 1..Len(options.trackingDomains) :
    OnDotBoundary(host, options.trackingDomains[i])

\* Some tracking domain occurs in the text, which is in lower case.
MentionedIn(lower) ==
  \E i \in 1..Len(options.trackingDomains) :
    \E k \in 1..(Len(lower) - Len(options.trackingDomains[i]) + 1) :
      SubSeq(lower, k, k + Len(options.trackingDomains[i]) - 1)
        = options.trackingDomains[i]

\* Some tracking domain occurs in the text, letter case aside.
Mentioned(text) == MentionedIn(ToLower(text))

\* What the claim makes the domain signal of a src, parsed or not.
DomainRule(src, parsed) ==
  IF parsed.ok THEN Tracked(HostOf(parsed)) ELSE Mentioned(src)

DomainRuleHolds(element, signal, rule) ==
  /\ signal <=> rule
  /\ Plain(element) => (verdict <=> rule)

\* C18: for a src that parses as a URL the domain signal holds if and only if
\* the lower-cased host is a tracking domain or ends with "." and that
\* domain; a host that only contains the domain does not trigger it.  Only
\* for a src that does not parse as a URL the signal is the containment,
\* letter case aside, of a tracking domain in the src.
C18_DomainDotBoundary ==
  Called /\ ~ NoSrc(img) =>
    DomainRuleHolds(img, DomainSignal(img),
                    DomainRule(img.src[1], Parsed(img)))

\* A host that contains a tracking domain off a dot boundary, not taken for
\* a tracker.
C18_Witness ==
  /\ Called /\ ~ NoSrc(img) /\ Plain(img)
  /\ Parsed(img).ok
  /\ Mentioned(HostOf(Parsed(img))) /\ ~ Tracked(HostOf(Parsed(img)))
  /\ verdict = FALSE

\* The style declares the property with the value: name, colon and value in
\* any letter case, with any white space on either side of the colon.
DeclaresAt(style, colon, value) ==
  /\ CharAt(style, colon) = ":"
  /\ TextAt(style, SkipRun(style, colon + 1, WhiteSpace), value)

Declares(style, name, value) ==
  \E k \in 1..Len(style) :
    /\ TextAt(style, k, name)
    /\ DeclaresAt(style, SkipRun(style, k + Len(name), WhiteSpace), value)

\* The offsets the style gives in pixels for the property.
Offsets(style, name) ==
  {parseInt(PxMatchAt(style, k, name, TRUE)[1]) :
     k \in {j \in 1..Len(style) : PxMatchAt(style, j, name, TRUE) # <<>>}}

FarOffsets(style) ==
  {offset \in Offsets(style, "left") \cup Offsets(style, "top") :
     offset < OffScreen}

\* C19: an image is classified as hidden when its style declares display
\* none or visibility hidden, in any letter case and with any white space
\* around the colon, and when it declares position absolute with a left or
\* top offset below -1000px; an image with position absolute whose left and
\* top offsets are -1000px or more is not hidden by this signal.
C19_VisibilitySignal ==
  Called /\ img.style # <<>> =>
    /\ \/ Declares(img.style[1], "display", "none")
       \/ Declares(img.style[1], "visibility", "hidden")
       => HiddenSignal(img) /\ verdict = TRUE
    /\ Declares(img.style[1], "position", "absolute")
         /\ FarOffsets(img.style[1]) # {}
       => HiddenSignal(img) /\ verdict = TRUE
    /\ Declares(img.style[1], "position", "absolute")
         /\ FarOffsets(img.style[1]) = {}
         /\ ~ Declares(img.style[1], "display", "none")
         /\ ~ Declares(img.style[1], "visibility", "hidden")
       => ~ HiddenSignal(img)

\* The images of the document clean was given that isTrackingPixel holds of.
Pixels ==
  {k \in 1..Len(before) :
     before[k].tag = "img" /\ isTrackingPixel(options, before[k])}

\* The document clean was given, without the elements at the positions.
Remaining(positions) ==
  SelectSeq(before, LAMBDA element : element.node \notin positions)

\* C20: clean removes from the document exactly the img elements of which
\* isTrackingPixel is true, each once, leaves every other element in place
\* and returns the number of elements removed; what is removed depends on
\* the elements alone, not on the order they are visited in.
Removed(positions) ==
  /\ document = Remaining(positions)
  /\ removedCount = Cardinality(positions)
  /\ removedCount = Len(before) - Len(document)
  /\ \A j, k \in 1..Len(imagesToRemove) :
       imagesToRemove[j].node = imagesToRemove[k].node => j = k

C20_BatchRemoval == Cleaned => Removed(Pixels)

\* Two pixels removed from a document that keeps an element.
C20_Witness ==
  /\ Cleaned
  /\ removedCount = 2
  /\ Len(document) = 1

(***************************************************************************)
(* Further properties of clean: depth, order and names of redirections.    *)
(***************************************************************************)
\* The invocations of clean nested in the last call.
NestedInvocations == depth - 1

\* C27: clean follows nested redirections to a depth of at most 10: a call
\* on a deeper chain returns without raising and has not made more than 10
\* nested invocations of clean.
C27_BoundedDepth ==
  /\ pc = "returned" /\ ~ again => NestedInvocations <= 10
  /\ input.kind = "string" /\ ParseUrl(input.str).ok => pc # "threw"

\* The parameters of u (by position in the raw query) whose name matches a
\* redirection pattern of provider P and whose value is not empty.
NamedRedirects(u, P) ==
  {i \in RedirectParameters(u, P) : RawPairs(u)[i][2] # ""}

\* C28: clean follows only the first parameter, in the order of the query,
\* whose name matches a redirection pattern and whose value is not empty; if
\* the value of that parameter does not decode to a URL, no later
\* redirection parameter is followed and the outer URL is cleaned by the
\* removal rules of the provider.
C28_FirstRedirectOnly ==
  (Returned /\ provider # 0 /\ NamedRedirects(u0, provider) # {}) =>
    IF Min(NamedRedirects(u0, provider)) \in RedirectCandidates(u0, provider)
    THEN depth > 1
    ELSE /\ depth = 1
         /\ SearchParams(result) =
              NotMatching(SearchParams(u0),
                          GlobalRemoval \o Removal(provider))

\* The entry is a literal parameter name: letters, digits and "_" only.
LiteralName(entry) ==
  /\ entry # ""
  /\ \A i \in 1..Len(entry) :
       IsAlpha(CharAt(entry, i)) \/ IsDigit(CharAt(entry, i))
         \/ CharAt(entry, i) = "_"

LiteralNames(entries) == \A i \in 1..Len(entries) : LiteralName(entries[i])

\* The name is one of the entries, letter case aside.
NamedBy(entries, name) ==
  \E i \in 1..Len(entries) : ToLower(entries[i]) = ToLower(name)

\* C29: under a provider whose rules, referral and redirections are literal
\* parameter names, clean removes a parameter only if its name is one of the
\* rules or referral entries, letter case aside, and follows a redirection
\* only for a parameter whose name is one of the redirection entries; a name
\* that only contains an entry is neither removed nor followed.
C29_WholeNameMatching ==
  (/\ Returned
   /\ provider # 0
   /\ ~ HasGlobal
   /\ LiteralNames(rules[provider].rules \o rules[provider].referral
                     \o rules[provider].redirections)) =>
    /\ depth = 1 =>
         \A i \in 1..Len(SearchParams(u0)) :
           \/ HasParam(result, SearchParams(u0)[i])
           \/ NamedBy(rules[provider].rules \o rules[provider].referral,
                      SearchParams(u0)[i][1])
    /\ depth > 1 =>
         \E i \in 1..Len(SearchParams(u0)) :
           /\ NamedBy(rules[provider].redirections, SearchParams(u0)[i][1])
           /\ SearchParams(u0)[i][2] # ""

\* The scheme is http or https.
Web(u) == u.scheme \in {"http", "https"}

\* C30: for every input URL with an http or https scheme clean returns a URL
\* whose scheme is http or https, also when it follows a redirection.
C30_SchemePreserved ==
  pc = "returned" /\ Web(u0) => Web(result)


(***************************************************************************)
(* The instance between calls of clean.                                    *)
(***************************************************************************)
\* The argument of the last call, as the caller built it.
Argument ==
  IF again THEN first
  ELSE IF input.own # "" THEN DefineHref(ParseUrl(input.str).url, input.own)
  ELSE ParseUrl(input.str).url

\* What new LinkCleaner(rules).clean does with the argument of the last call.
Fresh ==
  IF input.kind = "string" /\ ~ again
    THEN cleanString(rules, compileAll(rules), input.str)
  ELSE cleanUrl(rules, compileAll(rules), Argument)

Ended == pc \in {"returned", "threw"}

Done == emailMode = "sanitized"

\* The elements of the document an HTML string parses to; the k-th element
\* of the argument is node k.
ElementsOf(html) ==
  IF html.form = "input" THEN DocumentOf(html.elements) ELSE html.elements

Before == ElementsOf(emailHtml)
After == ElementsOf(emailResult.result.html)

IsLink(element) == element.tag = "a" /\ element.href # <<>>
IsImage(element) == element.tag = "img"

\* The href of every anchor of a document, by node.
Hrefs(doc) ==
  {<<doc[j].node, doc[j].href>> : j \in {i \in 1..Len(doc) : IsLink(doc[i])}}

\* The images of a document, by node.
Images(doc) == {doc[j].node : j \in {i \in 1..Len(doc) : IsImage(doc[i])}}

\* The anchors of one document whose href is another one in the other.
Rewritten(was, is) ==
  {k \in 1..Len(was) :
     /\ IsLink(was[k])
     /\ <<k, was[k].href>> \notin Hrefs(is)}

\* The images of one document that are not in the other.
Gone(was, is) == Images(was) \ Images(is)

Statistics == emailResult.result

\* C21: after every call of sanitizeEmail both counters are natural numbers,
\* wasModified is true exactly when one of them is not zero, urlsCleaned is
\* the number of anchors whose href the returned HTML gives another value,
\* and trackingPixelsRemoved is the number of images the returned HTML no
\* longer has.
C21_ResultInvariants ==
  Done =>
    /\ Statistics.urlsCleaned \in Nat
    /\ Statistics.trackingPixelsRemoved \in Nat
    /\ Statistics.wasModified <=>
         (Statistics.urlsCleaned # 0 \/ Statistics.trackingPixelsRemoved # 0)
    /\ Statistics.urlsCleaned = Cardinality(Rewritten(Before, After))
    /\ Statistics.trackingPixelsRemoved = Cardinality(Gone(Before, After))

\* Two tracking links and three tracking pixels give 2, 3 and true.
C21_Witness ==
  /\ Done
  /\ emailHtml.elements = CountingElements
  /\ Statistics.urlsCleaned = 2
  /\ Statistics.trackingPixelsRemoved = 3
  /\ Statistics.wasModified

\* The names of the query parameters of an href.
ParameterNames(href) == Names(SearchParams(ParseUrl(href).url))

\* Some parameter of the href matches a rule, a referral rule or a
\* redirection of some provider.
CarriesMatchedParameter(href) ==
  \E k \in 1..Len(rules), j \in 1..Len(ParameterNames(href)) :
     AnyMatches(rules[k].rules \o rules[k].referral \o rules[k].redirections,
                ParameterNames(href)[j])

\* The options the call constructs its TrackerPixelRemover with.
PixelOptions == mergeOptions(settingsOf(emailOptions).trackerPixelOptions)

\* Every href is a valid absolute URL without a parameter that any rule
\* matches, and no image is a tracking pixel.
CleanInput ==
  \A k \in 1..Len(Before) :
     /\ IsLink(Before[k]) =>
          /\ ParseUrl(Before[k].href[1]).ok
          /\ ~ CarriesMatchedParameter(Before[k].href[1])
     /\ IsImage(Before[k]) => ~ isTrackingPixel(PixelOptions, Before[k])

\* C22: for an input with nothing to clean sanitizeEmail returns the input
\* string itself, both counters 0 and wasModified false, however the hrefs
\* are spelled.
C22_CleanPassthrough ==
  Done /\ CleanInput =>
    /\ Statistics.urlsCleaned = 0
    /\ Statistics.trackingPixelsRemoved = 0
    /\ ~ Statistics.wasModified
    /\ Statistics.html = emailHtml

\* What the call's LinkCleaner does with an href.
CleanedHref(href) == cleanString(rules, compileAll(rules), href)

Settings == settingsOf(emailOptions)

\* C23: a call of sanitizeEmail that fails as a whole returns the input
\* string, both counters 0 and wasModified false; in every other call an
\* anchor whose href cannot be cleaned keeps its href, is reported by
\* console.warn and is not counted, every other anchor has its cleaned href
\* and every tracking pixel is removed, as the options ask.
C23_NeverFailsOutward ==
  Done =>
    /\ emailResult.failed =>
         Statistics = [html |-> emailHtml, urlsCleaned |-> 0,
                       trackingPixelsRemoved |-> 0, wasModified |-> FALSE]
    /\ ~ emailResult.failed =>
         \A k \in 1..Len(Before) :
            /\ IsLink(Before[k]) /\ Before[k].href[1] # ""
                 /\ Settings.cleanUrls =>
                 IF CleanedHref(Before[k].href[1]).threw
                   THEN /\ <<k, Before[k].href>> \in Hrefs(After)
                        /\ k \notin Rewritten(Before, After)
                        /\ \E j \in 1..Len(emailResult.warned) :
                              emailResult.warned[j] = Before[k].href[1]
                 ELSE <<k, <<Href(CleanedHref(Before[k].href[1]).url)>>>>
                         \in Hrefs(After)
            /\ IsImage(Before[k]) /\ Settings.removeTrackingPixels
                 /\ isTrackingPixel(PixelOptions, Before[k]) =>
                 k \in Gone(Before, After)
    /\ Statistics.urlsCleaned = Cardinality(Rewritten(Before, After))

\* An invalid href before a tracking pixel and a tracking link, which were
\* both processed and counted.
C23_Witness ==
  /\ Done
  /\ emailHtml.elements = Chosen({4, 6, 9})
  /\ emailResult.warned = <<"not-a-valid-url">>
  /\ Statistics.urlsCleaned = 1
  /\ Statistics.trackingPixelsRemoved = 1
  /\ <<1, <<"not-a-valid-url">>>> \in Hrefs(After)

\* A call that failed as a whole.
C23_WitnessFailed ==
  /\ Done
  /\ emailResult.failed
  /\ emailHtml.elements = CountingElements

\* The options without one of their fields, which then has its default.
Omitting(given, name) == [f \in DOMAIN given \ {name} |-> given[f]]

\* The same call with one option at its default.
Otherwise(name) == sanitizeEmail(emailHtml, rules, Omitting(emailOptions, name))

\* C24: with cleanUrls false no href changes and urlsCleaned is 0, while the
\* same images go as with cleanUrls true; with removeTrackingPixels false no
\* image goes and trackingPixelsRemoved is 0, while the hrefs are those with
\* removeTrackingPixels true; with both false the returned HTML is the input
\* string and wasModified is false.
C24_FeatureToggles ==
  Done /\ ~ emailResult.failed /\ ~ emailHtml.blank =>
    /\ ~ Settings.cleanUrls =>
         /\ Statistics.urlsCleaned = 0
         /\ Hrefs(After) = Hrefs(Before)
         /\ Images(After) = Images(Otherwise("cleanUrls").document)
         /\ Statistics.trackingPixelsRemoved =
              Otherwise("cleanUrls").result.trackingPixelsRemoved
    /\ ~ Settings.removeTrackingPixels =>
         /\ Statistics.trackingPixelsRemoved = 0
         /\ Images(After) = Images(Before)
         /\ Hrefs(After) = Hrefs(Otherwise("removeTrackingPixels").document)
         /\ Statistics.urlsCleaned =
              Otherwise("removeTrackingPixels").result.urlsCleaned
    /\ ~ Settings.cleanUrls /\ ~ Settings.removeTrackingPixels =>
         /\ Statistics.html = emailHtml
         /\ ~ Statistics.wasModified

\* URL cleaning is off for a document with tracking links and tracking
\* pixels.
C24_Witness ==
  /\ Done
  /\ emailOptions = [cleanUrls |-> FALSE]
  /\ emailHtml.elements = CountingElements
  /\ Statistics.trackingPixelsRemoved = 3
  /\ Statistics.urlsCleaned = 0

\* sanitizeEmail(html, rules) on the document the rewriter went through.
Buffered == sanitizeEmail(emailHtml, rules, NoSettings)

\* C25: when the rewriter has handed every a[href] element of a document to
\* linkHandler and every img element to pixelHandler, every anchor has the
\* href and the document has the images that sanitizeEmail(html, rules)
\* leaves, and the numbers of rewritten anchors and of removed images are
\* urlsCleaned and trackingPixelsRemoved.
C25_BufferedStreamingEquivalence ==
  emailMode = "streamed" =>
    /\ Hrefs(streamed) = Hrefs(Buffered.document)
    /\ Images(streamed) = Images(Buffered.document)
    /\ Cardinality(Rewritten(Before, streamed)) = Buffered.result.urlsCleaned
    /\ Cardinality(Gone(Before, streamed)) =
         Buffered.result.trackingPixelsRemoved

\* A rewritten stream with an invalid href, a rewritten href and a removed
\* image.
C25_Witness ==
  /\ emailMode = "streamed"
  /\ emailHtml.elements = Chosen({4, 6, 9})
  /\ Rewritten(Before, streamed) = {3}
  /\ Gone(Before, streamed) = {2}

=============================================================================
